---- MODULE Spec2Model ----
(***************************************************************************)
(* Warm pool of pre-initialised conversations: the ConversationPoolManager *)
(* (prewarm / claim / invalidate / shutdown), its warmer tasks, and the    *)
(* JSON repo registry they read and write through FileReposStore.          *)
(*                                                                         *)
(* Scheduling is asyncio: one thread, tasks interleave only at awaits.     *)
(* Each action below is the code that runs between two suspension points.  *)
(* The manager's asyncio.Lock is FIFO: it is modelled by the queue lockq   *)
(* whose head is the holder.                                               *)
(***************************************************************************)
EXTENDS Integers, Sequences, FiniteSets, TLC

\* ------------------------------------------------------------------ bounds

\* Number of client calls (prewarm_for_repo / claim_conversation /
\* invalidate_for_repo) issued in one behaviour.
MaxOps == 2

\* Number of PUT /saved-repos/{name} requests served in one behaviour.
MaxRouteCalls == 1

\* Webhook deliveries in a behaviour.
MaxDeliveries == 1

\* Entries of a stored document before the first store call, and direct
\* store calls in a behaviour.
MaxEntries == 3
MaxStoreCalls == 3

\* Entries of an autostart manifest.
MaxCommands == 3

\* ------------------------------------------------------- program constants

\* SavedRepository.pool_size default.
DefaultPoolSize == 2

None == "None"
TrackedRepo == "acme/widget"
OtherRepo == "acme/gadget"

\* Every _ensure_pool_filled run appends at most pool_size entries, and so
\* many again for every registry write that drops entries under it.
MaxConv == (MaxOps + MaxRouteCalls) * DefaultPoolSize
ConvIds == 1..MaxConv
\* Client calls are tasks 1..MaxOps; the refill that claim k detaches is
\* task MaxOps + k.
ClientIds == 1..MaxOps
OpIds == 1..(2 * MaxOps)
RefillOf(k) == MaxOps + k

RouteIds == 1..MaxRouteCalls

OpTask(t) == <<"op", t>>
WarmTask(c) == <<"warm", c>>

VARIABLES
    registry,   \* saved_repos.json: the persisted list of repository dicts
    tasks,      \* ConversationPoolManager._prewarm_tasks (its keys)
    creds,      \* ConversationPoolManager._repo_credentials: repos with tokens
    lockq,      \* ConversationPoolManager._lock: holder at the head, then waiters
    held,       \* the `repo` local of the task inside the lock
    op,         \* client calls and detached refills: kind, position, result
    nextConv,   \* source of fresh conversation ids (uuid4)
    wpc,        \* position of each warmer task
    wreq,       \* the status update a warmer is performing
    wlast,      \* _wait_for_runtime_ready's last_step local
    wpath,      \* the branch of _warm_conversation a warmer has taken
    wpoll,      \* history: what the warmer's last readiness poll found
    spawned,    \* history: asyncio.create_task calls per conversation id
    claimed,    \* history: ids returned by successful claims
    cancelReq,  \* history: conversation ids whose warmer got task.cancel()
    wasReady,   \* history: ids persisted as ready and not removed since
    route,      \* update_saved_repo requests: position and `repo` local
    hook,       \* webhook deliveries: request, position, `repo` local, response
    secret,     \* github_webhook.GITHUB_WEBHOOK_SECRET
    scall,      \* the last direct call of a FileReposStore method
    auto,       \* a call of execute_autostart_commands
    idea        \* an idea of the tracked repo and the build_idea request for it

vars == <<registry, tasks, creds, lockq, held, op, nextConv, wpc, wreq, wlast,
          wpath, wpoll, spawned, claimed, cancelReq, wasReady, route, hook, secret, scall, auto,
          idea>>

\* ------------------------------------------------------------- data model

\* PrewarmedConversation as built in memory.
PrewarmedConversation(id, status, msg, step) ==
    [conversation_id |-> id, status |-> status, error_message |-> msg,
     warming_step |-> step]

\* A datetime, the None that can stand in its place, and the clock.
DateTime(n) == <<"datetime", n>>
NoTime == <<"none", 0>>
LoadTick == 9
Now == DateTime(LoadTick)

\* datetime.isoformat and datetime.fromisoformat: a datetime and its text.
isoformat(t) == <<"iso", t[2]>>
fromisoformat(text) == DateTime(text[2])
IsIsoText(text) == text[1] = "iso"

\* A text that is no ISO date.
BadTime == <<"text", 0>>

\* The values of ProviderType the model uses.
ProviderTypes == {"github", "gitlab"}

\* A key that a stored dict does not have.
Absent == "<absent>"

\* dict.get(key, default)
Get(value, default) == IF value = Absent THEN default ELSE value

\* SavedRepository as built in memory.
SavedRepository(name, branch, sha, size, convs) ==
    [repo_full_name |-> name, branch |-> branch, git_provider |-> "github",
     added_at |-> DateTime(0),
     last_commit_sha |-> sha, pool_size |-> size,
     prewarmed_conversations |-> convs]

\* The value get_repo returns for a name that is not stored.
NoRepo == SavedRepository(None, None, None, 0, <<>>)

ActiveStatuses == {"ready", "warming"}

ActiveCount(repo) ==
    Cardinality({i \in DOMAIN repo.prewarmed_conversations :
                    repo.prewarmed_conversations[i].status \in ActiveStatuses})

\* Variant of needs_more_conversations that counts the ready entries only.
needs_more_conversations_ready_only(repo) ==
    Cardinality({i \in DOMAIN repo.prewarmed_conversations :
                    repo.prewarmed_conversations[i].status = "ready"})
        < repo.pool_size

\* Variant of needs_more_conversations with the comparison off by one.
needs_more_conversations_inclusive(repo) == ActiveCount(repo) <= repo.pool_size

needs_more_conversations(repo) == ActiveCount(repo) < repo.pool_size

IsReady(c) == c.status = "ready"
get_ready_conversations(repo) == SelectSeq(repo.prewarmed_conversations, IsReady)

get_warming_count(repo) ==
    Cardinality({i \in DOMAIN repo.prewarmed_conversations :
                    repo.prewarmed_conversations[i].status = "warming"})

\* ------------------------------------------------------------ FileReposStore

_prewarmed_conv_to_dict(conv) ==
    [conversation_id |-> conv.conversation_id, status |-> conv.status,
     error_message |-> conv.error_message]

_dict_to_prewarmed_conv(d) ==
    PrewarmedConversation(d.conversation_id, d.status, d.error_message, None)

_repo_to_dict(repo) ==
    [repo_full_name |-> repo.repo_full_name, branch |-> repo.branch,
     git_provider |-> repo.git_provider,
     added_at |-> IF repo.added_at # NoTime THEN isoformat(repo.added_at)
                  ELSE NoTime,
     last_commit_sha |-> repo.last_commit_sha, pool_size |-> repo.pool_size,
     prewarmed_conversations |->
        [i \in DOMAIN repo.prewarmed_conversations |->
            _prewarmed_conv_to_dict(repo.prewarmed_conversations[i])]]

\* _dict_to_repo raises for this dict: no repo_full_name, a provider that
\* is no ProviderType, an added_at text that is no ISO date.
Malformed(d) ==
    \/ d.repo_full_name = Absent
    \/ Get(d.git_provider, "github") \notin ProviderTypes
    \/ d.added_at = BadTime

_dict_to_repo(d) ==
    [repo_full_name |-> d.repo_full_name, branch |-> Get(d.branch, "main"),
     git_provider |-> Get(d.git_provider, "github"),
     added_at |-> IF IsIsoText(d.added_at) THEN fromisoformat(d.added_at)
                  ELSE Now,
     last_commit_sha |-> d.last_commit_sha, pool_size |-> d.pool_size,
     prewarmed_conversations |->
        [i \in DOMAIN d.prewarmed_conversations |->
            _dict_to_prewarmed_conv(d.prewarmed_conversations[i])]]

\* The file saved_repos.json: missing, unreadable as a JSON object, or a
\* JSON object with its list of repositories.
MissingFile == [kind |-> "missing", repositories |-> <<>>]
GarbageFile == [kind |-> "garbage", repositories |-> <<>>]
JsonFile(items) == [kind |-> "json", repositories |-> items]

\* Variant of load_all that gives up at the first malformed entry.
load_all_until_malformed(doc) ==
    IF doc.kind # "json" THEN <<>>
    ELSE LET bad == {i \in DOMAIN doc.repositories :
                        Malformed(doc.repositories[i])}
             n == IF bad = {} THEN Len(doc.repositories)
                  ELSE (CHOOSE i \in bad : \A j \in bad : i <= j) - 1
         IN  [i \in 1..n |-> _dict_to_repo(doc.repositories[i])]

\* load_all: [] for a missing or unreadable file, else the entries that
\* parse, in their stored order.
load_all(doc) ==
    IF doc.kind # "json" THEN <<>>
    ELSE LET good == SelectSeq(doc.repositories, LAMBDA d : ~Malformed(d))
         IN  [i \in DOMAIN good |-> _dict_to_repo(good[i])]

save_all(repos) == JsonFile([i \in DOMAIN repos |-> _repo_to_dict(repos[i])])

IndexOf(repos, name) ==
    LET hits == {i \in DOMAIN repos : repos[i].repo_full_name = name}
    IN  IF hits = {} THEN 0
        ELSE CHOOSE i \in hits : \A j \in hits : i <= j

get_repo(doc, name) ==
    LET repos == load_all(doc)
        i == IndexOf(repos, name)
    IN  IF i = 0 THEN NoRepo ELSE repos[i]

\* update_repo's loop over the list it loaded: `repo` in the place of the
\* first record of its name.
ReplaceIn(repos, repo) ==
    LET i == IndexOf(repos, repo.repo_full_name)
    IN  IF i = 0 THEN repos ELSE [repos EXCEPT ![i] = repo]

\* The document after update_repo(repo): unchanged when the name is missing.
update_repo(doc, repo) ==
    LET repos == load_all(doc)
        i == IndexOf(repos, repo.repo_full_name)
    IN  IF i = 0 THEN doc ELSE save_all(ReplaceIn(repos, repo))

\* update_repo's return value.
update_repo_found(doc, repo) ==
    IndexOf(load_all(doc), repo.repo_full_name) # 0

\* add_repo's loop over the list it loaded: the first record of the name
\* gets the branch, git_provider and pool_size of `repo`, or `repo` is
\* appended.
UpsertIn(repos, repo) ==
    LET i == IndexOf(repos, repo.repo_full_name)
    IN  IF i = 0 THEN Append(repos, repo)
        ELSE [repos EXCEPT ![i].branch = repo.branch,
                           ![i].git_provider = repo.git_provider,
                           ![i].pool_size = repo.pool_size]

\* Variant of add_repo that replaces the existing record by the new one.
add_repo_replacing(doc, repo) ==
    LET repos == load_all(doc)
        i == IndexOf(repos, repo.repo_full_name)
    IN  IF i = 0 THEN save_all(Append(repos, repo))
        ELSE save_all([repos EXCEPT ![i] = repo])

\* The document after add_repo(repo): the first record of that name gets
\* the branch, git_provider and pool_size of `repo`, or `repo` is appended.
add_repo(doc, repo) == save_all(UpsertIn(load_all(doc), repo))

\* remove_repo's return value: the list got shorter.
remove_repo_found(doc, name) ==
    Len(SelectSeq(load_all(doc), LAMBDA r : r.repo_full_name # name))
        < Len(load_all(doc))

\* Variant of remove_repo that also drops the records stored after it.
remove_repo_truncating(doc, name) ==
    IF remove_repo_found(doc, name)
    THEN save_all(SubSeq(load_all(doc), 1, IndexOf(load_all(doc), name) - 1))
    ELSE doc

\* The document after remove_repo(name): saved only when a record went.
remove_repo(doc, name) ==
    IF remove_repo_found(doc, name)
    THEN save_all(SelectSeq(load_all(doc), LAMBDA r : r.repo_full_name # name))
    ELSE doc

\* ----------------------------------------------------------------- helpers

IsHolder(task) == lockq # <<>> /\ Head(lockq) = task

\* str(e) of a caught exception: some non-empty text.
ErrorText == "str(e)"

NoReq ==
    [status |-> None, msg |-> None, step |-> None, then |-> None,
     catch |-> None]

\* A call of _update_conversation_status by a warmer: its arguments, the
\* await the warmer reaches when the call returns (`then`), and the except
\* clause of _warm_conversation that encloses the call (`catch`): "inner"
\* (line 232), "outer" (line 245) or "none" for the call made by the outer
\* clause itself.
Req(status, msg, step, then, catch) ==
    [status |-> status, msg |-> msg, step |-> step, then |-> then,
     catch |-> catch]

\* A call before it is made. `mark` is the next fresh conversation id at the
\* time of the call; `ret` is the value returned.
IdleOp == [kind |-> "idle", pc |-> "idle", mark |-> 0, ret |-> 0]

\* claim_conversation returns None as 0; the other calls return nothing.
Void == -1

Started(kind, pc) ==
    [kind |-> kind, pc |-> pc,
     mark |-> IF kind = "invalidate" THEN nextConv ELSE 0, ret |-> 0]

\* A call that has returned `ret`; what is kept of a finished call is its
\* result only.
Returned(ret) == [kind |-> "done", pc |-> "done", mark |-> 0, ret |-> ret]

Pool(doc, name) == get_repo(doc, name).prewarmed_conversations

PoolIds(doc, name) ==
    {Pool(doc, name)[i].conversation_id : i \in DOMAIN Pool(doc, name)}

StatusOf(doc, name, c) ==
    LET p == Pool(doc, name)
        hits == {i \in DOMAIN p : p[i].conversation_id = c}
    IN  IF hits = {} THEN None ELSE p[CHOOSE i \in hits : TRUE].status

\* ------------------------------------------------------- webhook requests

HookIds == 1..MaxDeliveries

\* os.environ.get('GITHUB_WEBHOOK_SECRET', ''): unset, or some secret.
NoSecret == ""
Secrets == {NoSecret, "s3cret"}

\* A repository the registry does not hold.
UntrackedRepo == "acme/unknown"

\* A ref is the sequence of its pieces, the text 'refs/heads/' being one
\* piece wherever it occurs.
HeadsPrefix == "refs/heads/"

RECURSIVE Join(_)
Join(pieces) ==
    IF pieces = <<>> THEN "" ELSE Head(pieces) \o Join(Tail(pieces))

\* ref.startswith('refs/heads/')
StartsWithHeads(ref) == ref # <<>> /\ Head(ref) = HeadsPrefix

\* ref.replace('refs/heads/', ''): every occurrence is removed.
ReplaceHeads(ref) == SelectSeq(ref, LAMBDA piece : piece # HeadsPrefix)

\* branch = ref.replace('refs/heads/', '') if ref.startswith('refs/heads/')
\* else ref
branch_of_ref(ref) ==
    IF StartsWithHeads(ref) THEN Join(ReplaceHeads(ref)) ELSE Join(ref)

\* The JSON body of a delivery together with its X-GitHub-Event header:
\* repository.full_name ('' when missing), ref, head_commit.id (None when
\* there is no head_commit).
Payload(event, name, ref, sha) ==
    [event |-> event, name |-> name, ref |-> ref, sha |-> sha]

NoPayload == Payload(None, "", <<>>, None)

\* A push on branch main of the tracked repo with head commit abc123.
TrackedPush == Payload("push", TrackedRepo, <<HeadsPrefix, "main">>, "abc123")

Payloads ==
    {TrackedPush,
     Payload("push", TrackedRepo, <<HeadsPrefix, "main">>, None),
     Payload("push", TrackedRepo, <<HeadsPrefix, "feature/x">>, "abc123"),
     Payload("push", TrackedRepo, <<HeadsPrefix, HeadsPrefix, "main">>, "abc123"),
     Payload("push", TrackedRepo, <<"refs/tags/", "main">>, "abc123"),
     Payload("push", UntrackedRepo, <<HeadsPrefix, "main">>, "abc123"),
     Payload("push", "", <<HeadsPrefix, "main">>, "abc123"),
     Payload("ping", "", <<>>, None),
     Payload("issues", TrackedRepo, <<>>, None)}

\* hmac.new(key, payload, sha256).hexdigest(): equal digests come from
\* equal keys and equal payloads only.
HmacSha256(key, payload) == <<key, payload>>

\* The X-Hub-Signature-256 header: absent, or a digest with or without the
\* 'sha256=' prefix.
NoSignature ==
    [present |-> FALSE, prefix |-> FALSE, digest |-> HmacSha256(NoSecret, NoPayload)]

Signature(prefix, digest) ==
    [present |-> TRUE, prefix |-> prefix, digest |-> digest]

\* The header GitHub computes for `payload` under the shared secret.
Signed(payload) == Signature(TRUE, HmacSha256("s3cret", payload))

\* What another sender can put in the header: nothing, the digest without
\* the prefix, a digest under another key, the digest of another body.
ForgedHeaders(payload) ==
    {NoSignature,
     Signature(FALSE, HmacSha256("s3cret", payload)),
     Signature(TRUE, HmacSha256("guess", payload)),
     Signature(TRUE, HmacSha256("s3cret", NoPayload))}

\* The requests delivered: every payload as GitHub signs it, and the push
\* on the tracked branch under each forged header.
Deliveries ==
    {<<payload, Signed(payload)>> : payload \in Payloads}
    \cup {<<TrackedPush, signature>> : signature \in ForgedHeaders(TrackedPush)}

\* Variant of verify_github_signature without the test of the prefix.
verify_github_signature_any_prefix(payload, signature, key) ==
    IF ~signature.present THEN FALSE
    ELSE IF key = NoSecret THEN TRUE
    ELSE HmacSha256(key, payload) = signature.digest

verify_github_signature(payload, signature, key) ==
    IF ~signature.present THEN FALSE
    ELSE IF key = NoSecret THEN TRUE
    ELSE IF ~signature.prefix THEN FALSE
    ELSE HmacSha256(key, payload) = signature.digest

\* A delivery: the request, the handler's position, its `repo` local, the
\* slot of its invalidate_for_repo call, the response.
IdleHook ==
    [pc |-> "idle", req |-> NoPayload, sig |-> NoSignature, repo |-> NoRepo,
     call |-> 0, code |-> 0, out |-> None]

\* A delivery answered with status `code`.
Responded(req, sig, code, out) ==
    [pc |-> "done", req |-> req, sig |-> sig, repo |-> NoRepo, call |-> 0,
     code |-> code, out |-> out]

\* ------------------------------------------------------ autostart manifest

\* An entry of the manifest's command list: whether it has a command, a
\* condition, and background: true.
CommandConfig(command, condition, background) ==
    [command |-> command, condition |-> condition, background |-> background]

CommandConfigs ==
    {CommandConfig(TRUE, FALSE, FALSE),
     CommandConfig(TRUE, TRUE, FALSE),
     CommandConfig(TRUE, FALSE, TRUE),
     CommandConfig(FALSE, FALSE, FALSE),
     CommandConfig(FALSE, TRUE, FALSE)}

CommandLists == UNION {[1..n -> CommandConfigs] : n \in 0..MaxCommands}

\* What yaml.safe_load returns for the manifest: a mapping with the legacy
\* key `startup`, a mapping with `autostart` (enabled or not), or a mapping
\* with neither.
Manifest(format, enabled, commands) ==
    [format |-> format, enabled |-> enabled, commands |-> commands]

NoManifest == Manifest(None, FALSE, <<>>)

Manifests ==
    {Manifest("startup", TRUE, cmds) : cmds \in CommandLists}
    \cup {Manifest("autostart", TRUE, cmds) : cmds \in CommandLists}
    \cup {Manifest("autostart", FALSE, cmds) :
             cmds \in {q \in CommandLists : Len(q) = 1}}
    \cup {Manifest("other", TRUE, <<>>)}

\* What runtime.read and the parse can give other than a manifest: the
\* call raises, the observation is no FileReadObservation (no such file),
\* the content is empty, starts with ERROR, is no YAML, parses to nothing,
\* or parses to a number.
ReadFailures ==
    {"raises", "no_file_observation", "empty_content", "error_content",
     "yaml_error", "empty_config", "number_config"}

\* Lines 76-83: the command list of a config, <<>> where the code has None.
commands_of(config) ==
    IF config.format = "startup" THEN config.commands
    ELSE IF config.format = "autostart" /\ config.enabled THEN config.commands
    ELSE <<>>

\* What a condition check can return: output with CONDITION_MET, output
\* with CONDITION_NOT_MET, output with neither (the check was cut off by
\* its timeout), an observation that is no CmdOutputObservation; or the
\* call raises.
CheckOutcomes == {"met", "not_met", "no_output", "other_observation", "raises"}

\* What the run of a command can return: exit code 0, another exit code,
\* an observation that is no CmdOutputObservation; or the call raises.
RunOutcomes == {"exit_zero", "exit_nonzero", "other_observation", "raises"}

\* A call of execute_autostart_commands: position, the manifest read, the
\* index of the loop, the outcome of the last check and of the last run,
\* the actions handed to runtime.run so far, and how the call ended.
IdleAutostart ==
    [pc |-> "idle", read |-> None, config |-> NoManifest, i |-> 0,
     checked |-> None, exit |-> None, log |-> <<>>, result |-> None]

\* A CmdRunAction handed to runtime.run: the check of entry i or its
\* command, wrapped in nohup when the entry is a background one.
CheckAction(i) == [kind |-> "check", entry |-> i, nohup |-> FALSE]
RunAction(i, background) == [kind |-> "run", entry |-> i, nohup |-> background]

\* RepoIdea.building_conversation_id: None before any build, '' when queued.
NoId == -1
EmptyId == 0

\* A RepoIdea of the tracked repo as add_idea stores it, with no build_idea
\* request in flight: `caller` is the claim_conversation call of the request
\* and `response` the status of the last BuildIdeaResponse.
NewIdea ==
    [pc |-> "idle", caller |-> 0, building_status |-> None,
     building_conversation_id |-> NoId, building_error_message |-> None,
     response |-> None]

\* No direct store call yet.
NoStoreCall ==
    [method |-> None, repo |-> NoRepo, ret |-> None, list |-> <<>>, n |-> 0]

\* The Pool Manager, the routes and the webhook after construction, in a
\* process whose uuid4 has `used` ids behind it and whose registry file
\* holds the entries `ready` as ready.
Constructed(used, ready) ==
    /\ tasks = {}
    /\ creds = {}
    /\ lockq = <<>>
    /\ held = NoRepo
    /\ op = [t \in OpIds |-> IdleOp]
    /\ nextConv = used + 1
    /\ wpc = [c \in ConvIds |-> "none"]
    /\ wreq = [c \in ConvIds |-> NoReq]
    /\ wlast = [c \in ConvIds |-> None]
    /\ wpath = [c \in ConvIds |-> None]
    /\ wpoll = [c \in ConvIds |-> None]
    /\ spawned = [c \in ConvIds |-> 0]
    /\ claimed = {}
    /\ cancelReq = {}
    /\ wasReady = ready
    /\ route = [r \in RouteIds |-> [pc |-> "idle", repo |-> NoRepo]]
    /\ hook = [d \in HookIds |-> IdleHook]
    /\ scall = NoStoreCall
    /\ auto = IdleAutostart
    /\ idea = NewIdea

InitManager == Constructed(0, {})

\* The state after construction, whatever the environment holds: two saved
\* repos with empty pools.
InitPool ==
    /\ registry = save_all(<<
            SavedRepository(TrackedRepo, "main", None, DefaultPoolSize, <<>>),
            SavedRepository(OtherRepo, "main", None, DefaultPoolSize, <<>>)>>)
    /\ InitManager

\* GITHUB_WEBHOOK_SECRET unset in the environment: the default ''.
Init ==
    /\ InitPool
    /\ secret = NoSecret

\* GITHUB_WEBHOOK_SECRET set or unset.
InitWebhook ==
    /\ InitPool
    /\ secret \in Secrets

\* The state after construction in a process that follows an earlier one:
\* initialize() leaves saved_repos.json as it finds it, here with one ready
\* entry in the pool of the tracked repo.
InitRestart ==
    /\ registry = save_all(<<
            SavedRepository(TrackedRepo, "main", None, DefaultPoolSize,
                <<PrewarmedConversation(1, "ready", None, "ready")>>),
            SavedRepository(OtherRepo, "main", None, DefaultPoolSize, <<>>)>>)
    /\ Constructed(1, {1})
    /\ secret = NoSecret


\* --------------------------------------------------------- registry writes

\* file_store.write of a new document.
StoreWrite(doc) ==
    /\ registry' = doc
    /\ wasReady' = {c \in PoolIds(doc, TrackedRepo) :
                       StatusOf(doc, TrackedRepo, c) = "ready" \/ c \in wasReady}

NoWrite == UNCHANGED <<registry, wasReady>>

\* await repos_store.update_repo(repo): save_all runs only when the name is
\* found in the freshly loaded list.
StoreUpdate(repo) ==
    IF IndexOf(load_all(registry), repo.repo_full_name) = 0
    THEN NoWrite
    ELSE StoreWrite(update_repo(registry, repo))

\* ------------------------------------------------------------------ warmer

\* The warmer calls _update_conversation_status and waits for the lock.
BeginUpdate(c, req) ==
    /\ wpc' = [wpc EXCEPT ![c] = "upd"]
    /\ wreq' = [wreq EXCEPT ![c] = req]
    /\ lockq' = Append(lockq, WarmTask(c))

\* Variant of SetConversationStatus that changes the oldest entry of the
\* pool, whatever its id.
SetConversationStatusOfOldest(repo, c, req) ==
    LET p == repo.prewarmed_conversations
    IN  IF p = <<>> THEN repo
        ELSE [repo EXCEPT !.prewarmed_conversations[1] =
                [conversation_id |-> p[1].conversation_id,
                 status |-> req.status,
                 error_message |-> req.msg,
                 warming_step |-> IF req.step # None THEN req.step
                                  ELSE p[1].warming_step]]

\* The loop `for conv in repo.prewarmed_conversations` of
\* _update_conversation_status: the first entry with the id is changed.
SetConversationStatus(repo, c, req) ==
    LET p == repo.prewarmed_conversations
        hits == {i \in DOMAIN p : p[i].conversation_id = c}
        first == CHOOSE i \in hits : \A j \in hits : i <= j
    IN  IF hits = {} THEN repo
        ELSE [repo EXCEPT !.prewarmed_conversations[first] =
                [conversation_id |-> c,
                 status |-> req.status,
                 error_message |-> req.msg,
                 warming_step |-> IF req.step # None THEN req.step
                                  ELSE p[first].warming_step]]

\* Variant of AfterUpdate without the finally clause: the warmer ends and
\* its id stays in the task index.
AfterUpdateWithoutFinally(c) ==
    /\ wpc' = [wpc EXCEPT ![c] = wreq[c].then]
    /\ wreq' = [wreq EXCEPT ![c] = NoReq]
    /\ tasks' = tasks
    /\ wlast' = IF wreq[c].then = "done" THEN [wlast EXCEPT ![c] = None]
                ELSE wlast
    /\ wpath' = IF wreq[c].then = "done" THEN [wpath EXCEPT ![c] = None]
                ELSE wpath
    /\ wpoll' = IF wreq[c].then = "done" THEN [wpoll EXCEPT ![c] = None]
                ELSE wpoll

\* What the warmer does once its status update has returned: it runs to its
\* next await, or through the finally clause when the update was its last.
AfterUpdate(c) ==
    /\ wpc' = [wpc EXCEPT ![c] = wreq[c].then]
    /\ wreq' = [wreq EXCEPT ![c] = NoReq]
    /\ tasks' = IF wreq[c].then = "done" THEN tasks \ {c} ELSE tasks
    /\ wlast' = IF wreq[c].then = "done" THEN [wlast EXCEPT ![c] = None]
                ELSE wlast
    /\ wpath' = IF wreq[c].then = "done" THEN [wpath EXCEPT ![c] = None]
                ELSE wpath
    /\ wpoll' = IF wreq[c].then = "done" THEN [wpoll EXCEPT ![c] = None]
                ELSE wpoll

\* _warm_conversation up to its first await: the 'initializing' update.
WarmerStart(c) ==
    /\ wpc[c] = "start"
    /\ BeginUpdate(c, Req("warming", None, "initializing", "get_repo", "outer"))
    /\ NoWrite
    /\ UNCHANGED <<tasks, creds, held, op, nextConv, wlast, wpath, wpoll, spawned, claimed,
                   cancelReq, route, hook, secret, scall, auto,
                   idea>>

\* _update_conversation_status: lock acquired, get_repo.
WarmerUpdateRead(c) ==
    /\ wpc[c] = "upd"
    /\ IsHolder(WarmTask(c))
    /\ LET repo == get_repo(registry, TrackedRepo)
       IN  IF repo = NoRepo
           THEN /\ lockq' = Tail(lockq)
                /\ AfterUpdate(c)
                /\ UNCHANGED held
           ELSE /\ held' = repo
                /\ wpc' = [wpc EXCEPT ![c] = "upd_w"]
                /\ UNCHANGED <<lockq, wreq, tasks, wlast, wpath, wpoll>>
    /\ NoWrite
    /\ UNCHANGED <<creds, op, nextConv, spawned, claimed, cancelReq, route, hook, secret, scall, auto,
                   idea>>

\* Variant of WarmerUpdateWrite that keeps the lock after the update, as a
\* warmer would that took the lock around its whole run.
WarmerUpdateWriteKeepsLock(c) ==
    /\ wpc[c] = "upd_w"
    /\ IsHolder(WarmTask(c))
    /\ StoreUpdate(SetConversationStatus(held, c, wreq[c]))
    /\ held' = NoRepo
    /\ lockq' = lockq
    /\ AfterUpdate(c)
    /\ UNCHANGED <<creds, op, nextConv, spawned, claimed, cancelReq, route, hook, secret, scall, auto,
                   idea>>

\* _update_conversation_status: entry changed, update_repo, lock released.
WarmerUpdateWrite(c) ==
    /\ wpc[c] = "upd_w"
    /\ IsHolder(WarmTask(c))
    /\ StoreUpdate(SetConversationStatus(held, c, wreq[c]))
    /\ held' = NoRepo
    /\ lockq' = Tail(lockq)
    /\ AfterUpdate(c)
    /\ UNCHANGED <<creds, op, nextConv, spawned, claimed, cancelReq, route, hook, secret, scall, auto,
                   idea>>

\* _warm_conversation after 'initializing': the unlocked get_repo, then the
\* credential gate.
WarmerGetRepo(c) ==
    /\ wpc[c] = "get_repo"
    /\ LET repo == get_repo(registry, TrackedRepo)
       IN  IF repo = NoRepo
           THEN /\ BeginUpdate(c, Req("error", "Repository not found",
                                     "error", "done", "outer"))
                /\ UNCHANGED wpath
           ELSE IF TrackedRepo \notin creds
           THEN /\ BeginUpdate(c, Req("warming", None, "creating_metadata",
                                     "init_conv", "outer"))
                /\ wpath' = [wpath EXCEPT ![c] = "metadata"]
           ELSE /\ BeginUpdate(c, Req("warming", None, "cloning_repo",
                                     "factory", "outer"))
                /\ wpath' = [wpath EXCEPT ![c] = "full"]
    /\ UNCHANGED wpoll
    /\ NoWrite
    /\ UNCHANGED <<tasks, creds, held, op, nextConv, wlast, spawned, claimed,
                   cancelReq, route, hook, secret, scall, auto,
                   idea>>

\* _warm_conversation_metadata_only: initialize_conversation returned.
WarmerMetadataOk(c) ==
    /\ wpc[c] = "init_conv"
    /\ BeginUpdate(c, Req("ready", None, "ready", "done", "outer"))
    /\ NoWrite
    /\ UNCHANGED <<tasks, creds, held, op, nextConv, wlast, wpath, wpoll, spawned, claimed,
                   cancelReq, route, hook, secret, scall, auto,
                   idea>>

\* initialize_conversation raised: the outer except clause marks the error.
WarmerMetadataFails(c) ==
    /\ wpc[c] = "init_conv"
    /\ BeginUpdate(c, Req("error", ErrorText, "error", "done", "none"))
    /\ NoWrite
    /\ UNCHANGED <<tasks, creds, held, op, nextConv, wlast, wpath, wpoll, spawned, claimed,
                   cancelReq, route, hook, secret, scall, auto,
                   idea>>

\* What one poll of _wait_for_runtime_ready can see of the session.
Observations == {"no_session", "no_runtime", "no_controller", "loading", "ready"}

\* Variant of RuntimeReady that returns as soon as the runtime is
\* initialized and a controller exists, whatever its agent state.
RuntimeReadyWhenInitialized(obs) == obs \in {"loading", "ready"}

\* Lines 278-291: the wait returns when, in this poll, the session has an
\* agent session, its runtime is initialized, and its controller gives a
\* state whose agent_state is not LOADING.
RuntimeReady(obs) == obs = "ready"

\* One iteration of the loop of _wait_for_runtime_ready, the deadline not
\* exceeded: `last` is last_step, `late` is elapsed > 10.
PollStep(c, last, obs, late) ==
    LET step == CASE obs = "loading" -> "starting_agent"
                  [] obs = "no_controller" -> "building_runtime"
                  [] OTHER -> "cloning_repo"
        write == \/ obs = "loading" /\ last # "starting_agent"
                 \/ obs = "no_controller" /\ last # "building_runtime"
                 \/ obs = "no_runtime" /\ last # "cloning_repo" /\ late
    IN  /\ wpoll' = [wpoll EXCEPT ![c] = IF obs = "ready" THEN "ready"
                                         ELSE "not_ready"]
        /\ IF RuntimeReady(obs)
           THEN /\ BeginUpdate(c, Req("ready", None, "ready", "done", "inner"))
                /\ wlast' = [wlast EXCEPT ![c] = last]
           ELSE IF write
           THEN /\ BeginUpdate(c, Req("warming", None, step, "sleep", "inner"))
                /\ wlast' = [wlast EXCEPT ![c] = step]
           ELSE /\ wpc' = [wpc EXCEPT ![c] = "sleep"]
                /\ wlast' = [wlast EXCEPT ![c] = last]
                /\ UNCHANGED <<wreq, lockq>>

\* create_new_conversation returned: the first poll runs at elapsed = 0.
WarmerFactoryOk(c) ==
    /\ wpc[c] = "factory"
    /\ \E obs \in Observations : PollStep(c, "cloning_repo", obs, FALSE)
    /\ NoWrite
    /\ UNCHANGED <<tasks, creds, held, op, nextConv, wpath, spawned, claimed,
                   cancelReq, route, hook, secret, scall, auto,
                   idea>>

\* Variant of SettingsFallback without the substring test on the message:
\* the settings error is marked like any other.
SettingsFallbackAsError ==
    Req("error", ErrorText, "error", "done", "outer")

\* The inner except clause on a message that contains "Settings not found",
\* "LLM" or "API key": _warm_conversation_metadata_only is entered, whose
\* first await is the creating_metadata update.
SettingsFallback ==
    Req("warming", None, "creating_metadata", "init_conv", "outer")

\* create_new_conversation raised a settings error: metadata-only fallback.
WarmerFactorySettingsError(c) ==
    /\ wpc[c] = "factory"
    /\ BeginUpdate(c, SettingsFallback)
    /\ wpath' = [wpath EXCEPT ![c] = "fallback"]
    /\ UNCHANGED wpoll
    /\ NoWrite
    /\ UNCHANGED <<tasks, creds, held, op, nextConv, wlast, spawned, claimed,
                   cancelReq, route, hook, secret, scall, auto,
                   idea>>

\* create_new_conversation raised any other error.
WarmerFactoryError(c) ==
    /\ wpc[c] = "factory"
    /\ BeginUpdate(c, Req("error", ErrorText, "error", "done", "outer"))
    /\ NoWrite
    /\ UNCHANGED <<tasks, creds, held, op, nextConv, wlast, wpath, wpoll, spawned, claimed,
                   cancelReq, route, hook, secret, scall, auto,
                   idea>>

\* asyncio.sleep(poll_interval) returned, deadline not exceeded.
WarmerPoll(c) ==
    /\ wpc[c] = "sleep"
    /\ \E obs \in Observations, late \in BOOLEAN :
          PollStep(c, wlast[c], obs, late)
    /\ NoWrite
    /\ UNCHANGED <<tasks, creds, held, op, nextConv, wpath, spawned, claimed,
                   cancelReq, route, hook, secret, scall, auto,
                   idea>>

\* An error raised inside _wait_for_runtime_ready whose message names the
\* settings: metadata-only fallback.
WarmerWaitSettingsError(c) ==
    /\ wpc[c] = "sleep"
    /\ BeginUpdate(c, SettingsFallback)
    /\ wpath' = [wpath EXCEPT ![c] = "fallback"]
    /\ UNCHANGED wpoll
    /\ wlast' = [wlast EXCEPT ![c] = None]
    /\ NoWrite
    /\ UNCHANGED <<tasks, creds, held, op, nextConv, spawned, claimed,
                   cancelReq, route, hook, secret, scall, auto,
                   idea>>

\* asyncio.sleep returned with elapsed > timeout_seconds: TimeoutError.
WarmerTimeout(c) ==
    /\ wpc[c] = "sleep"
    /\ BeginUpdate(c, Req("error", ErrorText, "error", "done", "outer"))
    /\ NoWrite
    /\ UNCHANGED <<tasks, creds, held, op, nextConv, wlast, wpath, wpoll, spawned, claimed,
                   cancelReq, route, hook, secret, scall, auto,
                   idea>>


\* ------------------------------------------------------------ cancellation

RECURSIVE Ascending(_)
Ascending(S) ==
    IF S = {} THEN <<>>
    ELSE LET m == CHOOSE x \in S : \A y \in S : x <= y
         IN  <<m>> \o Ascending(S \ {m})

\* Variant of WarmerOnCancel in which `except Exception` catches the
\* CancelledError, as it did before CancelledError became a BaseException.
WarmerOnCancelCaught(c) ==
    IF wpc[c] = "start"
    THEN [pc |-> "cancelled", req |-> NoReq, enq |-> FALSE]
    ELSE [pc |-> "upd", req |-> Req("error", ErrorText, "error", "done", "none"),
          enq |-> TRUE]

\* CancelledError thrown into _warm_conversation at its current await: no
\* except clause matches it, only the finally clause runs. A task cancelled
\* before its first step never runs at all.
WarmerOnCancel(c) ==
    [pc |-> "cancelled", req |-> NoReq, enq |-> FALSE]

LiveWarmers == {c \in ConvIds : wpc[c] \notin {"none", "done", "cancelled"}}

\* task.cancel() on the warmers of the ids in S, on top of lock queue q. The
\* cancelled task runs no code of its own before the error is delivered, so
\* the delivery is part of the step.
CancelWarmers(S, q) ==
    LET hit == S \cap LiveWarmers
        gone == {WarmTask(c) : c \in hit}
        Stays(x) == x \notin gone
        back == Ascending({c \in hit : WarmerOnCancel(c).enq})
    IN  /\ wpc' = [c \in ConvIds |->
                      IF c \in hit THEN WarmerOnCancel(c).pc ELSE wpc[c]]
        /\ wreq' = [c \in ConvIds |->
                      IF c \in hit THEN WarmerOnCancel(c).req ELSE wreq[c]]
        /\ wlast' = [c \in ConvIds |-> IF c \in hit THEN None ELSE wlast[c]]
        /\ wpath' = [c \in ConvIds |-> IF c \in hit THEN None ELSE wpath[c]]
        /\ wpoll' = [c \in ConvIds |-> IF c \in hit THEN None ELSE wpoll[c]]
        /\ lockq' = SelectSeq(q, Stays) \o
                        [i \in DOMAIN back |-> WarmTask(back[i])]
        /\ cancelReq' = cancelReq \cup hit

\* ------------------------------------------------------------ client calls

FirstIdle(k) ==
    /\ op[k].kind = "idle"
    /\ \A j \in ClientIds : j < k => op[j].kind # "idle"

\* What a caller passes as (user_id, provider_tokens).
CredentialArgs == {"none", "user_only", "tokens"}

\* prewarm_for_repo: credentials captured when given, then
\* _ensure_pool_filled waits for the lock.
CallPrewarm(k, arg) ==
    /\ FirstIdle(k)
    /\ creds' = CASE arg = "none" -> creds
                  [] arg = "user_only" -> creds \ {TrackedRepo}
                  [] arg = "tokens" -> creds \cup {TrackedRepo}
    /\ op' = [op EXCEPT ![k] = Started("prewarm", "ens_wait")]
    /\ lockq' = Append(lockq, OpTask(k))
    /\ NoWrite
    /\ UNCHANGED <<tasks, held, nextConv, wpc, wreq, wlast, wpath, wpoll, spawned, claimed,
                   cancelReq, route, hook, secret, scall, auto,
                   idea>>

\* _ensure_pool_filled: lock acquired, get_repo, first test of the loop.
EnsureRead(t) ==
    /\ op[t].pc = "ens_wait"
    /\ IsHolder(OpTask(t))
    /\ LET repo == get_repo(registry, TrackedRepo)
       IN  IF repo = NoRepo \/ ~needs_more_conversations(repo)
           THEN /\ lockq' = Tail(lockq)
                /\ op' = [op EXCEPT ![t] = Returned(Void)]
                /\ UNCHANGED held
           ELSE /\ held' = repo
                /\ op' = [op EXCEPT ![t].pc = "ens_append"]
                /\ UNCHANGED lockq
    /\ NoWrite
    /\ UNCHANGED <<tasks, creds, nextConv, wpc, wreq, wlast, wpath, wpoll, spawned, claimed,
                   cancelReq, route, hook, secret, scall, auto,
                   idea>>

\* Variant of NewConversationId that derives the id from the pool's length.
NewConversationIdByLength == Len(held.prewarmed_conversations) + 1

\* uuid.uuid4().hex: an id never produced before.
NewConversationId == nextConv

\* The loop body: a new entry appended and persisted, its warmer spawned and
\* recorded in the task index.
EnsureAppend(t) ==
    /\ op[t].pc = "ens_append"
    /\ IsHolder(OpTask(t))
    /\ nextConv <= MaxConv
    /\ LET conv_id == NewConversationId
           repo == [held EXCEPT !.prewarmed_conversations =
                       Append(@, PrewarmedConversation(conv_id, "warming",
                                                       None, "queued"))]
       IN  /\ StoreUpdate(repo)
           /\ held' = repo
           /\ wpc' = [wpc EXCEPT ![conv_id] = "start"]
           /\ spawned' = [spawned EXCEPT ![conv_id] = @ + 1]
           /\ tasks' = tasks \cup {conv_id}
           /\ nextConv' = nextConv + 1
    /\ op' = [op EXCEPT ![t].pc = "ens_reread"]
    /\ UNCHANGED <<creds, lockq, wreq, wlast, wpath, wpoll, claimed, cancelReq, route, hook, secret, scall, auto,
                   idea>>

\* The loop's re-read of the repo and its next test; the lock is released
\* when the loop ends.
EnsureReread(t) ==
    /\ op[t].pc = "ens_reread"
    /\ IsHolder(OpTask(t))
    /\ LET repo == get_repo(registry, TrackedRepo)
       IN  IF repo = NoRepo \/ ~needs_more_conversations(repo)
           THEN /\ lockq' = Tail(lockq)
                /\ op' = [op EXCEPT ![t] = Returned(Void)]
                /\ held' = NoRepo
           ELSE /\ held' = repo
                /\ op' = [op EXCEPT ![t].pc = "ens_append"]
                /\ UNCHANGED lockq
    /\ NoWrite
    /\ UNCHANGED <<tasks, creds, nextConv, wpc, wreq, wlast, wpath, wpoll, spawned, claimed,
                   cancelReq, route, hook, secret, scall, auto,
                   idea>>

\* claim_conversation waits for the lock.
CallClaim(k) ==
    /\ FirstIdle(k)
    /\ op' = [op EXCEPT ![k] = Started("claim", "claim_wait")]
    /\ lockq' = Append(lockq, OpTask(k))
    /\ NoWrite
    /\ UNCHANGED <<tasks, creds, held, nextConv, wpc, wreq, wlast, wpath, wpoll, spawned,
                   claimed, cancelReq, route, hook, secret, scall, auto,
                   idea>>

\* claim_conversation: lock acquired, get_repo, search for a ready entry;
\* returns None at once when there is none.
\* Variant of ClaimMiss in which the refill is scheduled on every return.
ClaimMissRefills(k) ==
    [op EXCEPT ![k] = Returned(0), ![RefillOf(k)] = Started("refill", "start")]

\* `return None` inside the lock: the create_task after the lock is not
\* reached.
ClaimMiss(k) ==
    [op EXCEPT ![k] = Returned(0)]

ClaimRead(k) ==
    /\ op[k].pc = "claim_wait"
    /\ IsHolder(OpTask(k))
    /\ LET repo == get_repo(registry, TrackedRepo)
       IN  IF repo = NoRepo \/ get_ready_conversations(repo) = <<>>
           THEN /\ lockq' = Tail(lockq)
                /\ op' = ClaimMiss(k)
                /\ UNCHANGED held
           ELSE /\ held' = repo
                /\ op' = [op EXCEPT ![k].pc = "claim_write"]
                /\ UNCHANGED lockq
    /\ NoWrite
    /\ UNCHANGED <<tasks, creds, nextConv, wpc, wreq, wlast, wpath, wpoll, spawned, claimed,
                   cancelReq, route, hook, secret, scall, auto,
                   idea>>

\* Variant of ClaimedEntry that takes the newest ready entry.
ClaimedEntryNewest(repo) ==
    get_ready_conversations(repo)[Len(get_ready_conversations(repo))]

\* Variant of RefillAfterClaim in which no refill is scheduled.
NoRefillAfterClaim == IdleOp

\* asyncio.create_task(self._ensure_pool_filled(repo_full_name)) at the end
\* of claim_conversation: a new task that has not run yet.
RefillAfterClaim == Started("refill", "start")

\* The entry claim_conversation picks: ready_convs[0].
ClaimedEntry(repo) == get_ready_conversations(repo)[1]

\* claim_conversation: the claimed entry removed and persisted, the lock
\* released, the refill detached, the id returned.
ClaimWrite(k) ==
    /\ op[k].pc = "claim_write"
    /\ IsHolder(OpTask(k))
    /\ LET conversation_id == ClaimedEntry(held).conversation_id
           Others(c) == c.conversation_id # conversation_id
           repo == [held EXCEPT !.prewarmed_conversations = SelectSeq(@, Others)]
       IN  /\ StoreUpdate(repo)
           /\ op' = [op EXCEPT
                       ![k] = Returned(conversation_id),
                       ![RefillOf(k)] = RefillAfterClaim]
           /\ claimed' = claimed \cup {conversation_id}
    /\ held' = NoRepo
    /\ lockq' = Tail(lockq)
    /\ UNCHANGED <<tasks, creds, nextConv, wpc, wreq, wlast, wpath, wpoll, spawned, cancelReq,
                   route, hook, secret, scall, auto,
                   idea>>

\* The detached _ensure_pool_filled task starts and waits for the lock.
RefillStart(t) ==
    /\ op[t].kind = "refill"
    /\ op[t].pc = "start"
    /\ op' = [op EXCEPT ![t].pc = "ens_wait"]
    /\ lockq' = Append(lockq, OpTask(t))
    /\ NoWrite
    /\ UNCHANGED <<tasks, creds, held, nextConv, wpc, wreq, wlast, wpath, wpoll, spawned,
                   claimed, cancelReq, route, hook, secret, scall, auto,
                   idea>>

\* Variant of InvalidatedPool that drops the warming entries only.
InvalidatedPoolKeepsReady(pool) == SelectSeq(pool, IsReady)

\* repo.prewarmed_conversations = [] in invalidate_for_repo.
InvalidatedPool(pool) == <<>>

\* invalidate_for_repo waits for the lock.
CallInvalidate(k) ==
    /\ FirstIdle(k)
    /\ op' = [op EXCEPT ![k] = Started("invalidate", "inv_wait")]
    /\ lockq' = Append(lockq, OpTask(k))
    /\ NoWrite
    /\ UNCHANGED <<tasks, creds, held, nextConv, wpc, wreq, wlast, wpath, wpoll, spawned,
                   claimed, cancelReq, route, hook, secret, scall, auto,
                   idea>>

\* invalidate_for_repo: lock acquired, get_repo, every warmer of an entry of
\* the pool popped from the index and cancelled, the pool emptied in memory.
InvalidateRead(k) ==
    /\ op[k].pc = "inv_wait"
    /\ IsHolder(OpTask(k))
    /\ LET repo == get_repo(registry, TrackedRepo)
           ids == {repo.prewarmed_conversations[i].conversation_id :
                      i \in DOMAIN repo.prewarmed_conversations}
       IN  IF repo = NoRepo
           THEN /\ lockq' = Tail(lockq)
                /\ op' = [op EXCEPT ![k] = Returned(Void)]
                /\ UNCHANGED <<held, tasks, wpc, wreq, wlast, wpath, wpoll, cancelReq>>
           ELSE /\ CancelWarmers(ids \cap tasks, lockq)
                /\ tasks' = tasks \ ids
                /\ held' = [repo EXCEPT !.prewarmed_conversations =
                                            InvalidatedPool(@)]
                /\ op' = [op EXCEPT ![k].pc = "inv_write"]
    /\ NoWrite
    /\ UNCHANGED <<creds, nextConv, spawned, claimed, route, hook, secret, scall, auto,
                   idea>>

\* invalidate_for_repo: the emptied pool persisted, the lock released, then
\* prewarm_for_repo, whose _ensure_pool_filled waits for the lock again.
InvalidateWrite(k) ==
    /\ op[k].pc = "inv_write"
    /\ IsHolder(OpTask(k))
    /\ StoreUpdate(held)
    /\ held' = NoRepo
    /\ lockq' = Append(Tail(lockq), OpTask(k))
    /\ op' = [op EXCEPT ![k].pc = "ens_wait"]
    /\ UNCHANGED <<tasks, creds, nextConv, wpc, wreq, wlast, wpath, wpoll, spawned, claimed,
                   cancelReq, route, hook, secret, scall, auto,
                   idea>>

\* ----------------------------------------------------------- store failures

\* A call that ended by raising.
Raised == [kind |-> "done", pc |-> "raised", mark |-> 0, ret |-> Void]

\* The error update made by the except clause that catches an exception of
\* a status update: the inner clause (line 241) for a call of the inner try,
\* the outer clause (line 248) for every other call of the outer try.
ErrorUpdateAfter(catch) ==
    IF catch = "inner" THEN Req("error", ErrorText, "error", "done", "outer")
    ELSE Req("error", ErrorText, "error", "done", "none")

\* load_all fails inside get_repo of _update_conversation_status: the error
\* is logged, the list is empty, the repo is not found and the update
\* returns without a write.
WarmerUpdateReadFails(c) ==
    /\ wpc[c] = "upd"
    /\ IsHolder(WarmTask(c))
    /\ lockq' = Tail(lockq)
    /\ AfterUpdate(c)
    /\ NoWrite
    /\ UNCHANGED <<creds, held, op, nextConv, spawned, claimed, cancelReq,
                   route, hook, secret, scall, auto,
                   idea>>

\* save_all raises inside update_repo of _update_conversation_status: the
\* lock is left through `async with`, the exception reaches the except
\* clause that encloses the call, whose own error update starts; raised by
\* the update of the outer clause it leaves _warm_conversation through the
\* finally clause.
WarmerUpdateWriteRaises(c) ==
    /\ wpc[c] = "upd_w"
    /\ IsHolder(WarmTask(c))
    /\ held' = NoRepo
    /\ wlast' = [wlast EXCEPT ![c] = None]
    /\ IF wreq[c].catch = "none"
       THEN /\ wpc' = [wpc EXCEPT ![c] = "raised"]
            /\ wreq' = [wreq EXCEPT ![c] = NoReq]
            /\ tasks' = tasks \ {c}
            /\ wpath' = [wpath EXCEPT ![c] = None]
            /\ wpoll' = [wpoll EXCEPT ![c] = None]
            /\ lockq' = Tail(lockq)
       ELSE /\ wpc' = [wpc EXCEPT ![c] = "upd"]
            /\ wreq' = [wreq EXCEPT ![c] = ErrorUpdateAfter(wreq[c].catch)]
            /\ lockq' = Append(Tail(lockq), WarmTask(c))
            /\ UNCHANGED <<tasks, wpath, wpoll>>
    /\ NoWrite
    /\ UNCHANGED <<creds, op, nextConv, spawned, claimed, cancelReq, route, hook, secret, scall, auto,
                   idea>>

\* save_all raises inside update_repo of _ensure_pool_filled: no except
\* clause, the exception leaves the call before the warmer is spawned.
EnsureAppendRaises(t) ==
    /\ op[t].pc = "ens_append"
    /\ IsHolder(OpTask(t))
    /\ held' = NoRepo
    /\ lockq' = Tail(lockq)
    /\ op' = [op EXCEPT ![t] = Raised]
    /\ NoWrite
    /\ UNCHANGED <<tasks, creds, nextConv, wpc, wreq, wlast, wpath, wpoll, spawned,
                   claimed, cancelReq, route, hook, secret, scall, auto,
                   idea>>

\* save_all raises inside update_repo of claim_conversation: the exception
\* leaves the call, nothing is claimed and no refill is started.
ClaimWriteRaises(k) ==
    /\ op[k].pc = "claim_write"
    /\ IsHolder(OpTask(k))
    /\ held' = NoRepo
    /\ lockq' = Tail(lockq)
    /\ op' = [op EXCEPT ![k] = Raised]
    /\ NoWrite
    /\ UNCHANGED <<tasks, creds, nextConv, wpc, wreq, wlast, wpath, wpoll, spawned,
                   claimed, cancelReq, route, hook, secret, scall, auto,
                   idea>>

\* save_all raises inside update_repo of invalidate_for_repo: the warmers
\* are cancelled already, the pool is not emptied, no prewarm follows.
InvalidateWriteRaises(k) ==
    /\ op[k].pc = "inv_write"
    /\ IsHolder(OpTask(k))
    /\ held' = NoRepo
    /\ lockq' = Tail(lockq)
    /\ op' = [op EXCEPT ![k] = Raised]
    /\ NoWrite
    /\ UNCHANGED <<tasks, creds, nextConv, wpc, wreq, wlast, wpath, wpoll, spawned,
                   claimed, cancelReq, route, hook, secret, scall, auto,
                   idea>>

StoreFailure ==
    \/ \E c \in ConvIds : WarmerUpdateReadFails(c)
    \/ \E c \in ConvIds : WarmerUpdateWriteRaises(c)
    \/ \E t \in OpIds : EnsureAppendRaises(t)
    \/ \E k \in ClientIds : ClaimWriteRaises(k)
    \/ \E k \in ClientIds : InvalidateWriteRaises(k)

\* --------------------------------------------------------- specifications

Warmer(c) ==
    \/ WarmerStart(c)
    \/ WarmerUpdateRead(c)
    \/ WarmerUpdateWrite(c)
    \/ WarmerGetRepo(c)
    \/ WarmerMetadataOk(c)
    \/ WarmerFactoryOk(c)
    \/ WarmerPoll(c)

\* A settings error of the factory or of the wait.
WarmerSettingsError(c) ==
    \/ WarmerFactorySettingsError(c)
    \/ WarmerWaitSettingsError(c)

WarmerFailure(c) ==
    \/ WarmerMetadataFails(c)
    \/ WarmerSettingsError(c)
    \/ WarmerFactoryError(c)
    \/ WarmerTimeout(c)

Manager ==
    \/ \E k \in ClientIds, arg \in CredentialArgs : CallPrewarm(k, arg)
    \/ \E k \in ClientIds : CallClaim(k)
    \/ \E k \in ClientIds : CallInvalidate(k)
    \/ \E t \in OpIds : EnsureRead(t)
    \/ \E t \in OpIds : EnsureAppend(t)
    \/ \E t \in OpIds : EnsureReread(t)
    \/ \E k \in ClientIds : ClaimRead(k)
    \/ \E k \in ClientIds : ClaimWrite(k)
    \/ \E t \in OpIds : RefillStart(t)
    \/ \E k \in ClientIds : InvalidateRead(k)
    \/ \E k \in ClientIds : InvalidateWrite(k)

\* ------------------------------------------------------ saved-repos routes

\* UpdateRepoRequest.branch values: absent, or a branch name.
RequestBranches == {None, "release"}

\* UpdateRepoRequest.pool_size when the request carries none.
NoPoolSize == -1

\* UpdateRepoRequest.pool_size values: one the route rejects, and the
\* smallest it accepts.
RequestPoolSizes == {0, 1}

\* The route's test of pool_size passes.
PoolSizeAccepted(pool_size) == ~(pool_size < 1 \/ pool_size > 10)

\* update_saved_repo up to its update_repo call: the repo is read with no
\* lock taken and the request's fields are set on the copy; a pool_size
\* out of range ends the call with status 400.
UpdateSavedRepoRead(r, branch, pool_size) ==
    /\ route[r].pc = "idle"
    /\ \A q \in RouteIds : q < r => route[q].pc # "idle"
    /\ LET repo == get_repo(registry, TrackedRepo)
       IN  route' = [route EXCEPT ![r] =
                IF repo = NoRepo
                THEN [pc |-> "done", repo |-> NoRepo]
                ELSE IF pool_size # NoPoolSize /\ ~PoolSizeAccepted(pool_size)
                THEN [pc |-> "done", repo |-> NoRepo]
                ELSE [pc |-> "write",
                      repo |-> [repo EXCEPT
                          !.branch = IF branch = None THEN @ ELSE branch,
                          !.pool_size = IF pool_size = NoPoolSize THEN @
                                        ELSE pool_size]]]
    /\ NoWrite
    /\ UNCHANGED <<tasks, creds, lockq, held, op, nextConv, wpc, wreq, wlast, wpath, wpoll,
                   spawned, claimed, cancelReq, hook, secret, scall, auto,
                   idea>>

\* update_saved_repo for a request that carries a branch or nothing.
RouteUpdateRead(r, branch) == UpdateSavedRepoRead(r, branch, NoPoolSize)

\* update_saved_repo's update_repo call, again with no lock taken.
RouteUpdateWrite(r) ==
    /\ route[r].pc = "write"
    /\ StoreUpdate(route[r].repo)
    /\ route' = [route EXCEPT ![r] = [pc |-> "done", repo |-> NoRepo]]
    /\ UNCHANGED <<tasks, creds, lockq, held, op, nextConv, wpc, wreq, wlast, wpath, wpoll,
                   spawned, claimed, cancelReq, hook, secret, scall, auto,
                   idea>>

Routes ==
    \/ \E r \in RouteIds, branch \in RequestBranches : RouteUpdateRead(r, branch)
    \/ \E r \in RouteIds : RouteUpdateWrite(r)

\* AddRepoRequest.pool_size values for a repo that is saved again.
AddPoolSizes == {1}

\* add_saved_repo for the tracked repo: the request is validated, add_repo
\* finds the repo stored and sets branch, git_provider and pool_size on it,
\* then prewarm_for_repo is called with no credentials.
AddSavedRepo(k, pool_size) ==
    /\ FirstIdle(k)
    /\ PoolSizeAccepted(pool_size)
    /\ StoreWrite(add_repo(registry,
            [SavedRepository(TrackedRepo, "main", None, pool_size, <<>>)
                EXCEPT !.added_at = Now]))
    /\ op' = [op EXCEPT ![k] = Started("prewarm", "ens_wait")]
    /\ lockq' = Append(lockq, OpTask(k))
    /\ UNCHANGED <<tasks, creds, held, nextConv, wpc, wreq, wlast, wpath, wpoll,
                   spawned, claimed, cancelReq, route, hook, secret, scall,
                   auto, idea>>

\* ---------------------------------------------------------- github webhook

\* handle_github_webhook up to the first read of the registry: signature
\* check when a secret is configured, dispatch on the event kind, and in
\* _handle_push_event the test of repository.full_name.
HookDeliver(d, payload, signature) ==
    /\ hook[d].pc = "idle"
    /\ \A q \in HookIds : q < d => hook[q].pc # "idle"
    /\ hook' = [hook EXCEPT ![d] =
          IF secret # NoSecret
             /\ ~verify_github_signature(payload, signature, secret)
          THEN Responded(payload, signature, 401, "rejected")
          ELSE IF payload.event = "ping"
          THEN Responded(payload, signature, 200, "pong")
          ELSE IF payload.event # "push" \/ payload.name = ""
          THEN Responded(payload, signature, 200, "ignored")
          ELSE [IdleHook EXCEPT !.pc = "read", !.req = payload,
                                !.sig = signature]]
    /\ NoWrite
    /\ UNCHANGED <<tasks, creds, lockq, held, op, nextConv, wpc, wreq, wlast,
                   wpath, wpoll, spawned, claimed, cancelReq, route, secret, scall, auto,
                   idea>>

\* pool_manager.invalidate_for_repo called by delivery d in slot k: the call
\* waits for the lock.
HookCallsInvalidate(d, k) ==
    /\ FirstIdle(k)
    /\ op' = [op EXCEPT ![k] = Started("invalidate", "inv_wait")]
    /\ lockq' = Append(lockq, OpTask(k))
    /\ hook' = [hook EXCEPT ![d].pc = "inv", ![d].sig = NoSignature,
                             ![d].repo = NoRepo, ![d].call = k]

\* _handle_push_event: get_repo with no lock taken, then the tests of the
\* repo and of the branch; last_commit_sha is set on the copy.
HookRead(d) ==
    /\ hook[d].pc = "read"
    /\ LET repo == get_repo(registry, hook[d].req.name)
           branch == branch_of_ref(hook[d].req.ref)
       IN  /\ repo # NoRepo /\ repo.branch = branch => hook[d].req.sha # None
           /\ hook' = [hook EXCEPT ![d] =
                 IF repo = NoRepo \/ repo.branch # branch
                 THEN Responded(hook[d].req, hook[d].sig, 200, "ignored")
                 ELSE [@ EXCEPT !.pc = "write", !.sig = NoSignature,
                                !.repo = [repo EXCEPT !.last_commit_sha =
                                                          hook[d].req.sha]]]
    /\ NoWrite
    /\ UNCHANGED <<tasks, creds, lockq, held, op, nextConv, wpc, wreq, wlast,
                   wpath, wpoll, spawned, claimed, cancelReq, route, secret, scall, auto,
                   idea>>

\* _handle_push_event for a push without head_commit: nothing is written,
\* invalidate_for_repo is called at once.
HookReadNoCommit(d, k) ==
    /\ hook[d].pc = "read"
    /\ hook[d].req.sha = None
    /\ LET repo == get_repo(registry, hook[d].req.name)
       IN  repo # NoRepo /\ repo.branch = branch_of_ref(hook[d].req.ref)
    /\ HookCallsInvalidate(d, k)
    /\ NoWrite
    /\ UNCHANGED <<tasks, creds, held, nextConv, wpc, wreq, wlast, wpath, wpoll,
                   spawned, claimed, cancelReq, route, secret, scall, auto,
                   idea>>

\* _handle_push_event: update_repo of the copy, again with no lock taken,
\* then invalidate_for_repo is called.
HookWrite(d, k) ==
    /\ hook[d].pc = "write"
    /\ StoreUpdate(hook[d].repo)
    /\ HookCallsInvalidate(d, k)
    /\ UNCHANGED <<tasks, creds, held, nextConv, wpc, wreq, wlast, wpath, wpoll,
                   spawned, claimed, cancelReq, route, secret, scall, auto,
                   idea>>

\* invalidate_for_repo has returned to the handler, which answers 200 with
\* no further await.
HookInvalidated(d) == hook[d].pc = "inv" /\ op[hook[d].call].pc = "done"

\* The status code of the response to delivery d, 0 while there is none.
HookResponse(d) == IF HookInvalidated(d) THEN 200 ELSE hook[d].code

Webhook ==
    \/ \E d \in HookIds, delivery \in Deliveries :
          HookDeliver(d, delivery[1], delivery[2])
    \/ \E d \in HookIds : HookRead(d)
    \/ \E d \in HookIds, k \in ClientIds : HookReadNoCommit(d, k)
    \/ \E d \in HookIds, k \in ClientIds : HookWrite(d, k)

\* ---------------------------------------------------------- specifications

\* The pool manager alone: client calls and warmers.
Next ==
    \/ Manager
    \/ \E c \in ConvIds : Warmer(c)
    \/ \E c \in ConvIds : WarmerFailure(c)

Spec == Init /\ [][Next]_vars

\* The factory, the metadata creation and the readiness wait never fail.
NextOk ==
    \/ Manager
    \/ \E c \in ConvIds : Warmer(c)

SpecOk == Init /\ [][NextOk]_vars

\* The only failures are settings errors of the factory and of the wait.
NextSettings ==
    \/ Manager
    \/ \E c \in ConvIds : Warmer(c)
    \/ \E c \in ConvIds : WarmerSettingsError(c)

SpecSettings == Init /\ [][NextSettings]_vars

\* Variant of Shutdown that keeps the credential map.
ShutdownKeepsCredentials ==
    /\ CancelWarmers(tasks, lockq)
    /\ tasks' = {}
    /\ held' = IF \E c \in tasks : IsHolder(WarmTask(c)) THEN NoRepo ELSE held
    /\ NoWrite
    /\ UNCHANGED <<creds, op, nextConv, spawned, claimed, route, hook, secret, scall, auto,
                   idea>>

\* shutdown(): every task of the index cancelled, index and credentials
\* cleared. It takes no lock; a warmer cancelled inside its status update
\* leaves the lock through the `async with` exit.
Shutdown ==
    /\ CancelWarmers(tasks, lockq)
    /\ tasks' = {}
    /\ creds' = {}
    /\ held' = IF \E c \in tasks : IsHolder(WarmTask(c)) THEN NoRepo ELSE held
    /\ NoWrite
    /\ UNCHANGED <<op, nextConv, spawned, claimed, route, hook, secret, scall, auto,
                   idea>>

NextShutdown ==
    \/ Next
    \/ Shutdown

SpecShutdown == Init /\ [][NextShutdown]_vars

\* The pool manager together with the routes that write the registry, for
\* callers that pass no credentials: every warmer takes the metadata-only
\* path.
NextRoutes ==
    \/ \E k \in ClientIds : CallPrewarm(k, "none")
    \/ \E k \in ClientIds : CallClaim(k)
    \/ \E k \in ClientIds : CallInvalidate(k)
    \/ \E t \in OpIds : EnsureRead(t)
    \/ \E t \in OpIds : EnsureAppend(t)
    \/ \E t \in OpIds : EnsureReread(t)
    \/ \E k \in ClientIds : ClaimRead(k)
    \/ \E k \in ClientIds : ClaimWrite(k)
    \/ \E t \in OpIds : RefillStart(t)
    \/ \E k \in ClientIds : InvalidateRead(k)
    \/ \E k \in ClientIds : InvalidateWrite(k)
    \/ \E c \in ConvIds : WarmerStart(c)
    \/ \E c \in ConvIds : WarmerUpdateRead(c)
    \/ \E c \in ConvIds : WarmerUpdateWrite(c)
    \/ \E c \in ConvIds : WarmerGetRepo(c)
    \/ \E c \in ConvIds : WarmerMetadataOk(c)
    \/ Routes

SpecRoutes == Init /\ [][NextRoutes]_vars

\* The same in a process that found a ready entry in the registry.
SpecRestart == InitRestart /\ [][NextRoutes]_vars

\* The pool manager together with the routes that set pool_size on a saved
\* repo, for callers that pass no credentials.
NextResize ==
    \/ \E k \in ClientIds : CallPrewarm(k, "none")
    \/ \E k \in ClientIds : CallClaim(k)
    \/ \E t \in OpIds : EnsureRead(t)
    \/ \E t \in OpIds : EnsureAppend(t)
    \/ \E t \in OpIds : EnsureReread(t)
    \/ \E k \in ClientIds : ClaimRead(k)
    \/ \E k \in ClientIds : ClaimWrite(k)
    \/ \E t \in OpIds : RefillStart(t)
    \/ \E c \in ConvIds : WarmerStart(c)
    \/ \E c \in ConvIds : WarmerUpdateRead(c)
    \/ \E c \in ConvIds : WarmerUpdateWrite(c)
    \/ \E c \in ConvIds : WarmerGetRepo(c)
    \/ \E c \in ConvIds : WarmerMetadataOk(c)
    \/ \E r \in RouteIds, pool_size \in RequestPoolSizes :
          UpdateSavedRepoRead(r, None, pool_size)
    \/ \E r \in RouteIds : RouteUpdateWrite(r)
    \/ \E k \in ClientIds, pool_size \in AddPoolSizes :
          AddSavedRepo(k, pool_size)

SpecResize == Init /\ [][NextResize]_vars

\* The pool manager over a registry store whose reads and writes can fail,
\* for callers that pass no credentials.
NextStore ==
    \/ \E k \in ClientIds : CallPrewarm(k, "none")
    \/ \E k \in ClientIds : CallClaim(k)
    \/ \E k \in ClientIds : CallInvalidate(k)
    \/ \E t \in OpIds : EnsureRead(t)
    \/ \E t \in OpIds : EnsureAppend(t)
    \/ \E t \in OpIds : EnsureReread(t)
    \/ \E k \in ClientIds : ClaimRead(k)
    \/ \E k \in ClientIds : ClaimWrite(k)
    \/ \E t \in OpIds : RefillStart(t)
    \/ \E k \in ClientIds : InvalidateRead(k)
    \/ \E k \in ClientIds : InvalidateWrite(k)
    \/ \E c \in ConvIds : WarmerStart(c)
    \/ \E c \in ConvIds : WarmerUpdateRead(c)
    \/ \E c \in ConvIds : WarmerUpdateWrite(c)
    \/ \E c \in ConvIds : WarmerGetRepo(c)
    \/ \E c \in ConvIds : WarmerMetadataOk(c)
    \/ \E c \in ConvIds : WarmerMetadataFails(c)
    \/ StoreFailure

SpecStore == Init /\ [][NextStore]_vars

\* The pool manager together with the GitHub webhook, for callers that pass
\* no credentials.
NextWebhook ==
    \/ \E k \in ClientIds : CallPrewarm(k, "none")
    \/ \E t \in OpIds : EnsureRead(t)
    \/ \E t \in OpIds : EnsureAppend(t)
    \/ \E t \in OpIds : EnsureReread(t)
    \/ \E k \in ClientIds : InvalidateRead(k)
    \/ \E k \in ClientIds : InvalidateWrite(k)
    \/ \E c \in ConvIds : WarmerStart(c)
    \/ \E c \in ConvIds : WarmerUpdateRead(c)
    \/ \E c \in ConvIds : WarmerUpdateWrite(c)
    \/ \E c \in ConvIds : WarmerGetRepo(c)
    \/ \E c \in ConvIds : WarmerMetadataOk(c)
    \/ Webhook

SpecWebhook == InitWebhook /\ [][NextWebhook]_vars

\* ------------------------------------------------- direct store calls

\* Stored dicts: two as the store writes them, one from an older version
\* of the file with keys missing, and three that _dict_to_repo rejects.
WidgetDict ==
    _repo_to_dict([SavedRepository(TrackedRepo, "main", "abc123", 2,
                      <<PrewarmedConversation(1, "ready", None, "ready")>>)
                   EXCEPT !.added_at = DateTime(1)])

GadgetDict ==
    _repo_to_dict([SavedRepository(OtherRepo, "dev", None, 1, <<>>)
                   EXCEPT !.added_at = DateTime(2), !.git_provider = "gitlab"])

LegacyDict ==
    [GadgetDict EXCEPT !.branch = Absent, !.git_provider = Absent,
                       !.added_at = NoTime]

MalformedDicts ==
    {[WidgetDict EXCEPT !.repo_full_name = Absent],
     [GadgetDict EXCEPT !.git_provider = "svn"],
     [WidgetDict EXCEPT !.added_at = BadTime]}

StoredDicts == {WidgetDict, GadgetDict, LegacyDict} \cup MalformedDicts

\* The names of the entries that parse are pairwise distinct, as add_repo
\* keeps them.
DistinctNames(items) ==
    \A i, j \in DOMAIN items :
        (i # j /\ ~Malformed(items[i]) /\ ~Malformed(items[j])) =>
            items[i].repo_full_name # items[j].repo_full_name

\* The files a store can find: none, an unreadable one, and the JSON
\* documents of up to MaxEntries entries.
Documents ==
    {MissingFile, GarbageFile}
    \cup {JsonFile(items) :
             items \in {q \in UNION {[1..n -> StoredDicts] : n \in 0..MaxEntries} :
                           DistinctNames(q)}}

\* The repos passed to add_repo and update_repo.
ArgumentRepos ==
    {[SavedRepository(TrackedRepo, "release", None, 1, <<>>)
         EXCEPT !.added_at = DateTime(3), !.git_provider = "gitlab"],
     [SavedRepository(OtherRepo, "main", "def456", 2,
                      <<PrewarmedConversation(2, "warming", None, "queued")>>)
         EXCEPT !.added_at = DateTime(4)],
     [SavedRepository(UntrackedRepo, "main", None, 2, <<>>)
         EXCEPT !.added_at = DateTime(5)]}

ArgumentNames == {TrackedRepo, OtherRepo, UntrackedRepo}

InitFiles ==
    /\ registry \in Documents
    /\ InitManager
    /\ secret = NoSecret

StoreCalled(method, repo, ret, list) ==
    /\ scall.n < MaxStoreCalls
    /\ scall' = [method |-> method, repo |-> repo, ret |-> ret,
                 list |-> list, n |-> scall.n + 1]
    /\ UNCHANGED <<tasks, creds, lockq, held, op, nextConv, wpc, wreq, wlast,
                   wpath, wpoll, spawned, claimed, cancelReq, route, hook, secret,
                   auto,
                   idea>>

\* await repos_store.add_repo(repo), run to its end.
AddRepo(repo) ==
    /\ StoreWrite(add_repo(registry, repo))
    /\ StoreCalled("add_repo", repo, None, <<>>)

\* await repos_store.update_repo(repo), run to its end.
UpdateRepo(repo) ==
    /\ IF update_repo_found(registry, repo)
       THEN StoreWrite(update_repo(registry, repo))
       ELSE NoWrite
    /\ StoreCalled("update_repo", repo,
                   IF update_repo_found(registry, repo) THEN "True"
                   ELSE "False", <<>>)

\* await repos_store.remove_repo(name), run to its end.
RemoveRepo(name) ==
    /\ IF remove_repo_found(registry, name)
       THEN StoreWrite(remove_repo(registry, name))
       ELSE NoWrite
    /\ StoreCalled("remove_repo",
                   SavedRepository(name, None, None, 0, <<>>),
                   IF remove_repo_found(registry, name) THEN "True"
                   ELSE "False", <<>>)

\* await repos_store.load_all()
LoadAll ==
    /\ NoWrite
    /\ StoreCalled("load_all", NoRepo, None, load_all(registry))

NextFiles ==
    \/ \E repo \in ArgumentRepos : AddRepo(repo)
    \/ \E repo \in ArgumentRepos : UpdateRepo(repo)
    \/ \E name \in ArgumentNames : RemoveRepo(name)
    \/ LoadAll

SpecFiles == InitFiles /\ [][NextFiles]_vars

\* ------------------------------------- store calls, step by step

\* add_repo and update_repo await the read of the file and then its write;
\* other coroutines run in between. A call between the two: `list` is what
\* the file held when it was read and `ret` tells whether the read gave it
\* ("loaded") or raised, which load_all turns into [] ("failed").
InFlight == scall.ret \in {"loaded", "failed"}

LoadedByCall == IF scall.ret = "failed" THEN <<>> ELSE scall.list

\* The call has returned `ret`; its locals are gone.
Ended(ret) ==
    [method |-> scall.method, repo |-> NoRepo, ret |-> ret, list |-> <<>>,
     n |-> scall.n]

\* The repo the routes pass to add_repo and update_repo while the Pool
\* Manager works on the tracked repo.
FrameArguments == {repo \in ArgumentRepos : repo.repo_full_name = OtherRepo}

SplitMethods == {"add_repo", "update_repo"}

\* The add_repo and update_repo calls of the routes in a run.
MaxSplitCalls == 1

\* add_repo or update_repo up to the return of load_all.
StoreLoad(method, repo, fails) ==
    /\ ~InFlight
    /\ scall.n < MaxSplitCalls
    /\ scall' = [method |-> method, repo |-> repo,
                 ret |-> IF fails THEN "failed" ELSE "loaded",
                 list |-> load_all(registry), n |-> scall.n + 1]
    /\ NoWrite
    /\ UNCHANGED <<tasks, creds, lockq, held, op, nextConv, wpc, wreq, wlast,
                   wpath, wpoll, spawned, claimed, cancelReq, route, hook,
                   secret, auto, idea>>

\* add_repo or update_repo from the return of load_all to its end.
StoreSave ==
    /\ InFlight
    /\ scall.method \in SplitMethods
    /\ LET repos == LoadedByCall
           found == IndexOf(repos, scall.repo.repo_full_name) # 0
       IN  IF scall.method = "add_repo"
           THEN /\ StoreWrite(save_all(UpsertIn(repos, scall.repo)))
                /\ scall' = Ended(None)
           ELSE /\ IF found
                   THEN StoreWrite(save_all(ReplaceIn(repos, scall.repo)))
                   ELSE NoWrite
                /\ scall' = Ended(IF found THEN "True" ELSE "False")
    /\ UNCHANGED <<tasks, creds, lockq, held, op, nextConv, wpc, wreq, wlast,
                   wpath, wpoll, spawned, claimed, cancelReq, route, hook,
                   secret, auto, idea>>

\* _update_conversation_status: entry changed, update_repo called, up to
\* the return of its load_all. A read that fails here makes update_repo
\* return False with nothing written.
WarmerUpdateLoad(c) ==
    /\ wpc[c] = "upd_w"
    /\ IsHolder(WarmTask(c))
    /\ ~InFlight
    /\ scall' = [method |-> "update_conversation_status",
                 repo |-> SetConversationStatus(held, c, wreq[c]),
                 ret |-> "loaded",
                 list |-> load_all(registry), n |-> scall.n]
    /\ NoWrite
    /\ UNCHANGED <<tasks, creds, lockq, held, op, nextConv, wpc, wreq, wlast,
                   wpath, wpoll, spawned, claimed, cancelReq, route, hook,
                   secret, auto, idea>>

\* _update_conversation_status from the return of update_repo's load_all:
\* the list saved when the repo is in it, lock released.
WarmerUpdateSave(c) ==
    /\ wpc[c] = "upd_w"
    /\ IsHolder(WarmTask(c))
    /\ InFlight
    /\ scall.method = "update_conversation_status"
    /\ LET repos == LoadedByCall
           found == IndexOf(repos, scall.repo.repo_full_name) # 0
       IN  /\ IF found
              THEN StoreWrite(save_all(ReplaceIn(repos, scall.repo)))
              ELSE NoWrite
           /\ scall' = Ended(IF found THEN "True" ELSE "False")
    /\ held' = NoRepo
    /\ lockq' = Tail(lockq)
    /\ AfterUpdate(c)
    /\ UNCHANGED <<creds, op, nextConv, spawned, claimed, cancelReq, route,
                   hook, secret, auto, idea>>

\* update_saved_repo for the other repo with a branch, run to its end.
RouteUpdateOther(r) ==
    /\ route[r].pc = "idle"
    /\ \A q \in RouteIds : q < r => route[q].pc # "idle"
    /\ LET repo == get_repo(registry, OtherRepo)
       IN  IF repo = NoRepo THEN NoWrite
           ELSE StoreUpdate([repo EXCEPT !.branch = "release"])
    /\ route' = [route EXCEPT ![r] = [pc |-> "done", repo |-> NoRepo]]
    /\ UNCHANGED <<tasks, creds, lockq, held, op, nextConv, wpc, wreq, wlast,
                   wpath, wpoll, spawned, claimed, cancelReq, hook, secret,
                   scall, auto, idea>>

\* The pool manager, for callers that pass no credentials, together with
\* routes that save other repos; every update_repo and add_repo of the
\* routes and of the warmers is a read followed by a write.
NextFrame ==
    \/ \E k \in ClientIds : CallPrewarm(k, "none")
    \/ \E t \in OpIds : EnsureRead(t)
    \/ \E t \in OpIds : EnsureAppend(t)
    \/ \E t \in OpIds : EnsureReread(t)
    \/ \E c \in ConvIds : WarmerStart(c)
    \/ \E c \in ConvIds : WarmerUpdateRead(c)
    \/ \E c \in ConvIds : WarmerUpdateLoad(c)
    \/ \E c \in ConvIds : WarmerUpdateSave(c)
    \/ \E c \in ConvIds : WarmerGetRepo(c)
    \/ \E c \in ConvIds : WarmerMetadataOk(c)
    \/ \E method \in SplitMethods, repo \in FrameArguments,
          fails \in BOOLEAN : StoreLoad(method, repo, fails)
    \/ StoreSave
    \/ \E r \in RouteIds : RouteUpdateOther(r)

SpecFrame == Init /\ [][NextFrame]_vars

\* ------------------------------------------------------ autostart executor

\* The call has returned to its caller.
AutostartReturned(a) ==
    [a EXCEPT !.pc = "done", !.result = "returned"]

\* Variant of AutostartCaught in which the exception leaves the call.
AutostartPropagates(a) ==
    [a EXCEPT !.pc = "done", !.result = "raised"]

\* An exception inside the try block: one of the two except clauses logs
\* it and the call returns.
AutostartCaught(a) ==
    [a EXCEPT !.pc = "done", !.result = "returned"]

\* The for loop from entry i on, up to its next await: entries without a
\* command are skipped, the check of an entry with a condition is handed
\* to the runtime, else its command.
RECURSIVE AutostartLoop(_, _)
AutostartLoop(a, i) ==
    LET cmds == commands_of(a.config)
    IN  IF i > Len(cmds) THEN AutostartReturned([a EXCEPT !.i = i])
        ELSE IF ~cmds[i].command THEN AutostartLoop(a, i + 1)
        ELSE IF cmds[i].condition
        THEN [a EXCEPT !.pc = "check", !.i = i, !.checked = None,
                       !.log = Append(@, CheckAction(i))]
        ELSE [a EXCEPT !.pc = "run", !.i = i, !.checked = None,
                       !.log = Append(@, RunAction(i, cmds[i].background))]

\* Lines 117-123: the command is skipped when the check returned a
\* CmdOutputObservation whose content has CONDITION_NOT_MET.
SkipsCommand(outcome) == outcome = "not_met"

\* Variant of ContinuesAfterRun that ends the loop at a non-zero exit of a
\* foreground command.
ContinuesAfterFailedRun(outcome, background) ==
    outcome # "exit_nonzero" \/ background

\* Lines 143-158: whatever the observation of a run, the loop goes on.
ContinuesAfterRun(outcome, background) == TRUE

\* execute_autostart_commands is called with a workspace path or without;
\* with one it hands the FileReadAction to runtime.read.
AutostartCall(workspace_path) ==
    /\ auto.pc = "idle"
    /\ auto' = IF workspace_path THEN [auto EXCEPT !.pc = "read"]
               ELSE AutostartReturned(auto)
    /\ NoWrite
    /\ UNCHANGED <<tasks, creds, lockq, held, op, nextConv, wpc, wreq, wlast,
                   wpath, wpoll, spawned, claimed, cancelReq, route, hook, secret,
                   scall,
                   idea>>

\* runtime.read gives no manifest: the call returns, by a return statement
\* or through an except clause.
AutostartReadFails(failure) ==
    /\ auto.pc = "read"
    /\ auto' = IF failure \in {"raises", "yaml_error", "number_config"}
               THEN AutostartCaught([auto EXCEPT !.read = failure])
               ELSE AutostartReturned([auto EXCEPT !.read = failure])
    /\ NoWrite
    /\ UNCHANGED <<tasks, creds, lockq, held, op, nextConv, wpc, wreq, wlast,
                   wpath, wpoll, spawned, claimed, cancelReq, route, hook, secret,
                   scall,
                   idea>>

\* runtime.read gives a manifest: the command list is chosen and the loop
\* runs to its first await.
AutostartReadManifest(config) ==
    /\ auto.pc = "read"
    /\ auto' = AutostartLoop([auto EXCEPT !.read = "manifest",
                                          !.config = config], 1)
    /\ NoWrite
    /\ UNCHANGED <<tasks, creds, lockq, held, op, nextConv, wpc, wreq, wlast,
                   wpath, wpoll, spawned, claimed, cancelReq, route, hook, secret,
                   scall,
                   idea>>

\* The check of entry i has come back.
AutostartChecked(outcome) ==
    /\ auto.pc = "check"
    /\ LET cmds == commands_of(auto.config)
           a == [auto EXCEPT !.checked = outcome]
       IN  auto' = IF outcome = "raises" THEN AutostartCaught(a)
                   ELSE IF SkipsCommand(outcome)
                   THEN AutostartLoop(a, auto.i + 1)
                   ELSE [a EXCEPT !.pc = "run",
                            !.log = Append(@, RunAction(auto.i,
                                               cmds[auto.i].background))]
    /\ NoWrite
    /\ UNCHANGED <<tasks, creds, lockq, held, op, nextConv, wpc, wreq, wlast,
                   wpath, wpoll, spawned, claimed, cancelReq, route, hook, secret,
                   scall,
                   idea>>

\* The run of entry i has come back.
AutostartRan(outcome) ==
    /\ auto.pc = "run"
    /\ LET cmds == commands_of(auto.config)
           a == [auto EXCEPT !.exit = outcome]
       IN  auto' = IF outcome = "raises" THEN AutostartCaught(a)
                   ELSE IF ContinuesAfterRun(outcome, cmds[auto.i].background)
                   THEN AutostartLoop(a, auto.i + 1)
                   ELSE AutostartReturned(a)
    /\ NoWrite
    /\ UNCHANGED <<tasks, creds, lockq, held, op, nextConv, wpc, wreq, wlast,
                   wpath, wpoll, spawned, claimed, cancelReq, route, hook, secret,
                   scall,
                   idea>>

NextAutostart ==
    \/ \E workspace_path \in BOOLEAN : AutostartCall(workspace_path)
    \/ \E failure \in ReadFailures : AutostartReadFails(failure)
    \/ \E config \in Manifests : AutostartReadManifest(config)
    \/ \E outcome \in CheckOutcomes : AutostartChecked(outcome)
    \/ \E outcome \in RunOutcomes : AutostartRan(outcome)

SpecAutostart == Init /\ [][NextAutostart]_vars


\* ------------------------------------------------------ the build_idea route

\* FileIdeasStore.start_building: the conversation id and the status are
\* set and the error message cleared.
start_building(i, conversation_id, status) ==
    [i EXCEPT !.building_conversation_id = conversation_id,
              !.building_status = status,
              !.building_error_message = None]

\* FileIdeasStore.update_building_status with an error message.
update_building_status(i, status, error_message) ==
    [i EXCEPT !.building_status = status,
              !.building_error_message = error_message]

\* build_idea: the idea and the repo are found, and claim_conversation
\* waits for the lock.
BuildIdea(k) ==
    /\ idea.pc = "idle"
    /\ FirstIdle(k)
    /\ get_repo(registry, TrackedRepo) # NoRepo
    /\ op' = [op EXCEPT ![k] = Started("claim", "claim_wait")]
    /\ lockq' = Append(lockq, OpTask(k))
    /\ idea' = [idea EXCEPT !.pc = "claim", !.caller = k, !.response = None]
    /\ NoWrite
    /\ UNCHANGED <<tasks, creds, held, nextConv, wpc, wreq, wlast, wpath, wpoll,
                   spawned, claimed, cancelReq, route, hook, secret, scall,
                   auto>>

\* claim_conversation returned None: the idea is stored as queued with the
\* conversation id '' and the response says so.
BuildIdeaQueued ==
    /\ idea.pc = "claim"
    /\ op[idea.caller].kind = "done"
    /\ op[idea.caller].ret = 0
    /\ idea' = [start_building(idea, EmptyId, "queued") EXCEPT
                    !.pc = "idle", !.response = "queued"]
    /\ NoWrite
    /\ UNCHANGED <<tasks, creds, lockq, held, op, nextConv, wpc, wreq, wlast,
                   wpath, wpoll, spawned, claimed, cancelReq, route, hook, secret,
                   scall, auto>>

\* claim_conversation returned an id: the idea is stored as running with
\* it, and the idea text is sent to the conversation.
BuildIdeaStarted ==
    /\ idea.pc = "claim"
    /\ op[idea.caller].kind = "done"
    /\ op[idea.caller].ret # 0
    /\ idea' = [start_building(idea, op[idea.caller].ret, "running") EXCEPT
                    !.pc = "send"]
    /\ NoWrite
    /\ UNCHANGED <<tasks, creds, lockq, held, op, nextConv, wpc, wreq, wlast,
                   wpath, wpoll, spawned, claimed, cancelReq, route, hook, secret,
                   scall, auto>>

\* send_event_to_conversation returned: the response says running.
BuildIdeaSent ==
    /\ idea.pc = "send"
    /\ idea' = [idea EXCEPT !.pc = "idle", !.response = "running"]
    /\ NoWrite
    /\ UNCHANGED <<tasks, creds, lockq, held, op, nextConv, wpc, wreq, wlast,
                   wpath, wpoll, spawned, claimed, cancelReq, route, hook, secret,
                   scall, auto>>

\* send_event_to_conversation raised: the idea is stored as error.
BuildIdeaSendFails ==
    /\ idea.pc = "send"
    /\ idea' = [update_building_status(idea, "error", ErrorText) EXCEPT
                    !.pc = "idle", !.response = "error"]
    /\ NoWrite
    /\ UNCHANGED <<tasks, creds, lockq, held, op, nextConv, wpc, wreq, wlast,
                   wpath, wpoll, spawned, claimed, cancelReq, route, hook, secret,
                   scall, auto>>

\* The handler of a request goes on once the call it awaits has returned.
BuildIdeaContinues ==
    \/ BuildIdeaQueued
    \/ BuildIdeaStarted
    \/ BuildIdeaSent

\* Requests of clients, the tasks of the pool they start, and the handler
\* of build_idea with its one failure.
NextIdeas ==
    \/ \E k \in ClientIds, arg \in CredentialArgs : CallPrewarm(k, arg)
    \/ \E k \in ClientIds : BuildIdea(k)
    \/ \E t \in OpIds : EnsureRead(t)
    \/ \E t \in OpIds : EnsureAppend(t)
    \/ \E t \in OpIds : EnsureReread(t)
    \/ \E k \in ClientIds : ClaimRead(k)
    \/ \E k \in ClientIds : ClaimWrite(k)
    \/ \E t \in OpIds : RefillStart(t)
    \/ \E c \in ConvIds : Warmer(c)
    \/ BuildIdeaContinues
    \/ BuildIdeaSendFails

\* Builds of an idea against the pool. The event loop resumes a handler
\* whose await has completed; nothing obliges a client to send a request.
SpecIdeas == Init /\ [][NextIdeas]_vars /\ WF_vars(BuildIdeaContinues)


\* ------------------------------------------------------------------ claims

Tracked == get_repo(registry, TrackedRepo)

Quiesced ==
    /\ lockq = <<>>
    /\ \A t \in OpIds : op[t].pc \in {"idle", "done"}
    /\ LiveWarmers = {}

\* C1: for every saved repo, in every state reached by interleavings of
\* prewarm_for_repo, claim_conversation, invalidate_for_repo and the warmers'
\* status updates, the entries with status ready or warming number at most
\* pool_size.
C1_ActiveWithinPoolSize ==
    \A i \in DOMAIN load_all(registry) :
        ActiveCount(load_all(registry)[i]) <= load_all(registry)[i].pool_size

\* A claim has been served and the pool is full again.
C1_Witness ==
    /\ claimed # {}
    /\ ActiveCount(Tracked) = Tracked.pool_size

PrewarmsInFlight == {k \in ClientIds : op[k].kind = "prewarm"}

\* C2: at the step in which the last of the prewarm_for_repo calls in flight
\* returns, the repo has exactly pool_size entries with status ready or
\* warming, and exactly one warmer task has been spawned for every entry ever
\* appended.
C2_PrewarmsConverge ==
    [][(PrewarmsInFlight # {} /\ PrewarmsInFlight' = {}) =>
          /\ ActiveCount(Tracked)' = Tracked'.pool_size
          /\ \A c \in ConvIds :
                spawned'[c] = IF c < nextConv' THEN 1 ELSE 0]_vars

\* Two prewarm_for_repo calls in flight at once: one has filled the pool and
\* still holds the lock, another waits for it.
C2_Witness ==
    /\ \E j, k \in PrewarmsInFlight :
          /\ j # k
          /\ IsHolder(OpTask(j))
          /\ op[k].pc = "ens_wait"
    /\ ActiveCount(Tracked) = Tracked.pool_size


ReadyCount(repo) == Len(get_ready_conversations(repo))

SomeCallReturned == \E k \in ClientIds : op[k].pc = "done"

Without(pool, id) == SelectSeq(pool, LAMBDA c : c.conversation_id # id)

\* C4: a successful claim_conversation returns the id of the first entry of
\* prewarmed_conversations whose status is ready and, in the step in which it
\* holds the lock, removes exactly that entry from the persisted pool; the
\* other entries and their order are unchanged.
C4_ClaimTakesOldestReady ==
    [][\A k \in ClientIds :
          (op[k].pc = "claim_write" /\ op'[k].pc = "done") =>
              /\ IsHolder(OpTask(k))
              /\ get_ready_conversations(Tracked) # <<>>
              /\ op'[k].ret = get_ready_conversations(Tracked)[1].conversation_id
              /\ Pool(registry', TrackedRepo) =
                    Without(Pool(registry, TrackedRepo), op'[k].ret)]_vars

\* A claim returned an id while an older entry, not ready then, stays in the
\* pool, and a younger ready entry was passed over.
C4_Witness ==
    \E c \in claimed :
        /\ \E d \in PoolIds(registry, TrackedRepo) : d < c
        /\ \E k \in ClientIds : op[k].ret = c

\* C6: a claim_conversation that finds no entry of status ready returns None
\* in the step in which it reads the pool, whatever warmers are running, and
\* changes neither the persisted registry nor the task index, and detaches no
\* refill.
C6_ClaimWithoutReadyIsNoop ==
    [][\A k \in ClientIds :
          (/\ op[k].pc = "claim_wait"
           /\ get_ready_conversations(Tracked) = <<>>
           /\ op'[k] # op[k]) =>
              /\ op'[k] = Returned(0)
              /\ registry' = registry
              /\ tasks' = tasks
              /\ op'[RefillOf(k)] = IdleOp
              /\ ~IsHolder(OpTask(k))']_vars

\* A claim has returned None from a pool that holds entries, none ready,
\* with a warmer still running.
C6_Witness ==
    /\ \E k \in ClientIds : op[k] = Returned(0)
    /\ Pool(registry, TrackedRepo) # <<>>
    /\ ReadyCount(Tracked) = 0
    /\ LiveWarmers # {}
    /\ claimed = {}

\* C7: at the step in which invalidate_for_repo returns, no conversation id
\* that existed when it was called is in the pool or in the task index, and
\* the pool is exactly pool_size entries, all of status warming.
C7_InvalidateReplacesPool ==
    [][\A k \in ClientIds :
          (op[k].kind = "invalidate" /\ op'[k].pc = "done"
              /\ Tracked # NoRepo) =>
              /\ \A c \in ConvIds :
                    c < op[k].mark =>
                        /\ c \notin PoolIds(registry', TrackedRepo)
                        /\ c \notin tasks'
              /\ Len(Pool(registry', TrackedRepo)) = Tracked'.pool_size
              /\ \A i \in DOMAIN Pool(registry', TrackedRepo) :
                    Pool(registry', TrackedRepo)[i].status = "warming"]_vars

\* An invalidation has cancelled a warmer, every call has returned, and none
\* of the cancelled ids is in the pool.
C7_Witness ==
    /\ cancelReq # {}
    /\ \A k \in ClientIds : op[k].pc = "done"
    /\ PoolIds(registry, TrackedRepo) \cap cancelReq = {}
    /\ Len(Pool(registry, TrackedRepo)) = Tracked.pool_size

\* C10: in every reachable state and for every repo, the conversation ids of
\* prewarmed_conversations are pairwise distinct.
C10_DistinctIds ==
    \A i \in DOMAIN load_all(registry) :
        LET pool == load_all(registry)[i].prewarmed_conversations
        IN  Cardinality({pool[j].conversation_id : j \in DOMAIN pool}) = Len(pool)

\* A pool of two entries one of which a refill appended after a claim.
C10_Witness ==
    /\ Len(Pool(registry, TrackedRepo)) >= 2
    /\ claimed # {}


EntryOf(doc, c) ==
    LET p == Pool(doc, TrackedRepo)
        hits == {i \in DOMAIN p : p[i].conversation_id = c}
    IN  IF hits = {} THEN <<>> ELSE <<p[CHOOSE i \in hits : TRUE]>>

\* C8: a warmer that invalidate_for_repo or shutdown has cancelled takes no
\* further step, and no later step appends an entry of its id, sets its
\* entry to error or changes its entry in any way other than removing it.
C8_CancelledWarmerWritesNothing ==
    [][\A c \in cancelReq :
          /\ wpc'[c] = wpc[c]
          /\ wreq'[c] = wreq[c]
          /\ WarmTask(c) \notin {lockq'[i] : i \in DOMAIN lockq'}
          /\ EntryOf(registry', c) \in {EntryOf(registry, c), <<>>}]_vars

\* shutdown has cancelled a warmer while it was inside a status update, its
\* entry is still in the pool, and a later call has returned.
C8_Witness ==
    \E c \in cancelReq :
        /\ EntryOf(registry, c) # <<>>
        /\ tasks = {}
        /\ \E k \in ClientIds : op[k].pc = "done"

\* C9: an entry persisted as ready and not removed since never shows status
\* warming, whatever writes the registry.
C9_ReadyNeverBackToWarming ==
    \A c \in wasReady : StatusOf(registry, TrackedRepo, c) # "warming"

AppendNeverCapped ==
    \A t \in OpIds : op[t].pc = "ens_append" => nextConv <= MaxConv


\* The order of the warming steps: queued < initializing <
\* (creating_metadata | cloning_repo) < building_runtime < starting_agent <
\* ready.
StepRank(step) ==
    CASE step = "queued" -> 0
      [] step = "initializing" -> 1
      [] step \in {"creating_metadata", "cloning_repo"} -> 2
      [] step = "building_runtime" -> 3
      [] step = "starting_agent" -> 4
      [] step = "ready" -> 5

\* The warming_step of the latest _update_conversation_status call of a
\* warmer that is between two calls (the step of the appended entry before
\* the first call).
LastStep(c) ==
    CASE wpc[c] = "start" -> "queued"
      [] wpc[c] = "get_repo" -> "initializing"
      [] wpc[c] = "init_conv" -> "creating_metadata"
      [] wpc[c] = "factory" -> "cloning_repo"
      [] wpc[c] = "sleep" -> wlast[c]

\* C11: every warming_step a warmer writes, the error step apart, is at
\* least as late in the order as the step it wrote before, whatever the
\* readiness poll observes and whatever the factory does.
C11_StepsMonotone ==
    [][\A c \in ConvIds :
          (wreq[c] = NoReq /\ wreq'[c] # NoReq /\ wreq'[c].status # "error") =>
              StepRank(LastStep(c)) <= StepRank(wreq'[c].step)]_vars


\* C12: the record read back from the registry after a warmer's status
\* update equals, in every field of every pool entry, warming_step included,
\* the in-memory record the update handed to update_repo.
C12_RoundTrip ==
    [][\A c \in ConvIds :
          (wpc[c] = "upd_w" /\ wpc'[c] # "upd_w") =>
              get_repo(registry', TrackedRepo) =
                  SetConversationStatus(held, c, wreq[c])]_vars


\* The warming_step an observer reads from the registry for conversation c.
StepOf(doc, c) ==
    IF EntryOf(doc, c) = <<>> THEN None ELSE EntryOf(doc, c)[1].warming_step

\* A warmer that found no provider tokens never reaches the factory or the
\* readiness wait, and asks for no step other than creating_metadata, ready
\* and error.
MetadataPathOnly ==
    \A c \in ConvIds :
        wpath[c] = "metadata" =>
            /\ wpc[c] \notin {"factory", "sleep"}
            /\ wreq[c].step \in {None, "creating_metadata", "ready", "error"}

\* C13: a warmer that found no provider tokens never reaches the factory
\* and never writes cloning_repo, and its entry shows step creating_metadata
\* while the metadata is being created.
C13_MetadataOnlySteps ==
    /\ MetadataPathOnly
    /\ \A c \in ConvIds :
          (/\ wpath[c] = "metadata"
           /\ wpc[c] = "init_conv"
           /\ EntryOf(registry, c) # <<>>) =>
              StepOf(registry, c) = "creating_metadata"


FailedWarmerEnds(c) ==
    /\ wpc[c] = "upd_w"
    /\ wreq[c].status = "error"
    /\ wpc'[c] = "done"

\* When a failed warmer ends, its entry is still in the pool with status
\* error and the message of the failure.
FailureMarksError ==
    [][\A c \in ConvIds :
          FailedWarmerEnds(c) =>
              /\ EntryOf(registry', c) # <<>>
              /\ EntryOf(registry', c)[1].status = "error"
              /\ EntryOf(registry', c)[1].error_message = wreq[c].msg
              /\ wreq[c].msg # None
              /\ c \notin tasks']_vars

\* C15: when a warmer that failed with a non-settings error ends, its entry
\* is in the pool with status error, warming_step error and an error
\* message.
C15_FailureEndsError ==
    [][\A c \in ConvIds :
          FailedWarmerEnds(c) =>
              /\ EntryOf(registry', c) # <<>>
              /\ EntryOf(registry', c)[1].status = "error"
              /\ EntryOf(registry', c)[1].error_message # None
              /\ StepOf(registry', c) = "error"]_vars


\* C16: every step that writes the registry is taken while a task holds the
\* pool manager's lock, and no write falls between the read and the write-back
\* of another writer, be it a task inside the lock or a route handler.
C16_WritesUnderLock ==
    [][/\ registry' # registry => lockq # <<>>
       /\ (held # NoRepo /\ held' = held) => registry' = registry
       /\ \A r \in RouteIds :
             (route[r].pc = "write" /\ route'[r] = route[r]) =>
                 registry' = registry]_vars

\* A warmer that has ended on its own, by returning or by raising.
WarmerEnded(c) == wpc[c] \in {"done", "raised"}

\* C17: no call of prewarm_for_repo, claim_conversation or
\* invalidate_for_repo and no warmer ends by raising, and no entry is left
\* in status 'warming' by a warmer that has ended.
C17_NoRaiseNoOrphan ==
    /\ \A t \in OpIds : op[t].pc # "raised"
    /\ \A c \in ConvIds : wpc[c] # "raised"
    /\ \A c \in ConvIds :
          WarmerEnded(c) => StatusOf(registry, TrackedRepo, c) # "warming"

\* The branch a ref names: <name> in refs/heads/<name>, None for a ref
\* that is no branch.
PushedBranch(ref) == IF StartsWithHeads(ref) THEN Join(Tail(ref)) ELSE None

\* Delivery d is a push with a head commit on the tracked branch of the
\* tracked repo, and the handler has called invalidate_for_repo.
PushHandled(d) ==
    /\ hook[d].pc = "inv"
    /\ hook[d].req.name = TrackedRepo
    /\ hook[d].req.sha # None
    /\ PushedBranch(hook[d].req.ref) = Tracked.branch

\* C18: from the call of invalidate_for_repo on, through the invalidation
\* and the refill and after the handler has answered, the persisted
\* last_commit_sha of the repo is the head_commit.id of the push.
C18_PushPersistsSha ==
    \A d \in HookIds :
        PushHandled(d) => Tracked.last_commit_sha = hook[d].req.sha

\* A request the webhook is to ignore: not a push, or a push that names a
\* repo the registry does not hold, or a push on another branch than the
\* tracked one.
Ignorable(doc, req) ==
    \/ req.event # "push"
    \/ get_repo(doc, req.name) = NoRepo
    \/ PushedBranch(req.ref) # get_repo(doc, req.name).branch

\* The steps of an ignorable delivery change nothing but the delivery.
IgnoredChangesNothing(d) ==
    (hook'[d] # hook[d] /\ Ignorable(registry, hook'[d].req)) =>
        UNCHANGED <<registry, tasks, wpc, lockq, op>>

\* C19: a delivery that is not a push, or names a repo not in the
\* registry, or pushes another branch than the tracked one, leaves the
\* registry and the task index unchanged and cancels no warmer.
C19_IgnoredDeliveryIsNoop ==
    [][\A d \in HookIds : IgnoredChangesNothing(d)]_vars

\* The same for refs in which 'refs/heads/' occurs once at most.
IgnoredPlainRefIsNoop ==
    [][\A d \in HookIds :
          Len(ReplaceHeads(hook'[d].req.ref)) + 1 >= Len(hook'[d].req.ref) =>
              IgnoredChangesNothing(d)]_vars

\* The header is missing, lacks the prefix, or carries another digest than
\* the HMAC of the body under the configured secret.
BadSignature(req, sig) ==
    \/ ~sig.present
    \/ ~sig.prefix
    \/ sig.digest # HmacSha256(secret, req)

\* Delivery d is received in this step.
Received(d) == hook[d].pc = "idle" /\ hook'[d].pc # "idle"

\* C20: with a secret configured, a delivery with a bad signature is
\* answered 401 in the step that receives it, before any read or write of
\* the registry and before any invalidation, and nothing else changes;
\* with no secret configured no delivery is answered 401 and a push that
\* names a repo goes on to the registry whatever its signature header.
C20_BadSignatureRejected ==
    [][\A d \in HookIds : Received(d) =>
          /\ (secret # NoSecret /\ BadSignature(hook'[d].req, hook'[d].sig)) =>
                /\ hook'[d].pc = "done"
                /\ hook'[d].code = 401
                /\ hook'[d].repo = NoRepo
                /\ UNCHANGED <<registry, tasks, creds, lockq, held, op, wpc,
                               wreq>>
          /\ secret = NoSecret =>
                /\ hook'[d].code # 401
                /\ (hook'[d].req.event = "push" /\ hook'[d].req.name # "") =>
                       hook'[d].pc = "read"]_vars

\* A delivery whose digest is right but lacks the prefix has been answered
\* 401 while warmers were running.
C20_Witness ==
    \E d \in HookIds :
        /\ secret # NoSecret
        /\ hook[d].code = 401
        /\ hook[d].sig.present
        /\ ~hook[d].sig.prefix
        /\ hook[d].sig.digest = HmacSha256(secret, hook[d].req)
        /\ tasks # {}

\* C21: a shutdown() step cancels every warmer of the task index, none of
\* them keeps a position or a pending status update, the task index and
\* the credential map are empty afterwards, and a shutdown() in a state
\* where both are empty already changes nothing.
C21_ShutdownClearsAll ==
    [][Shutdown =>
          /\ \A c \in tasks :
                /\ c \in cancelReq'
                /\ wpc'[c] \in {"cancelled", "done"}
                /\ wreq'[c] = NoReq
                /\ WarmTask(c) \notin {lockq'[i] : i \in DOMAIN lockq'}
          /\ tasks' = {}
          /\ creds' = {}
          /\ (tasks = {} /\ creds = {}) => UNCHANGED vars]_vars

\* shutdown has cancelled two warmers whose entries are still in the pool,
\* index and credentials are empty and no call is inside the lock.
C21_Witness ==
    /\ tasks = {}
    /\ creds = {}
    /\ lockq = <<>>
    /\ Cardinality({c \in cancelReq : wpc[c] = "cancelled"
                                      /\ EntryOf(registry, c) # <<>>}) >= 2
    /\ \E k \in ClientIds : op[k].kind = "done"

\* The entry of c is in the pool before the step and not after it.
EntryLeaves(c) == EntryOf(registry, c) # <<>> /\ EntryOf(registry', c) = <<>>

\* The entries of the pool with status error.
ErrorEntries(repo) ==
    {i \in DOMAIN repo.prewarmed_conversations :
        repo.prewarmed_conversations[i].status = "error"}

\* C22: an entry leaves the pool only in the step of claim_conversation
\* that returns its id or in the step of invalidate_for_repo that persists
\* the emptied pool; an entry with status error is not counted as active.
C22_LeavesOnlyByClaimOrInvalidate ==
    [][/\ \A c \in ConvIds : EntryLeaves(c) =>
             \/ c \in claimed' \ claimed
             \/ \E k \in ClientIds :
                   op[k].pc = "inv_write" /\ IsHolder(OpTask(k))
       /\ ActiveCount(Tracked) + Cardinality(ErrorEntries(Tracked))
             = Len(Tracked.prewarmed_conversations)]_vars

\* The step is a direct call of `method`.
Calls(method) == scall'.n = scall.n + 1 /\ scall'.method = method

\* The names of the records load_all returns are pairwise distinct.
OneRecordPerName(doc) ==
    \A i, j \in DOMAIN load_all(doc) :
        i # j => load_all(doc)[i].repo_full_name # load_all(doc)[j].repo_full_name

\* C23: add_repo leaves at most one record per repo_full_name; for a name
\* that is stored it changes branch, git_provider and pool_size of that
\* record to the argument's and keeps its prewarmed_conversations, added_at
\* and last_commit_sha and every other record; for a new name it appends
\* the record; a second add_repo of the same argument changes nothing.
C23_AddRepoIsUpsert ==
    [][Calls("add_repo") =>
          LET before == load_all(registry)
              after == load_all(registry')
              repo == scall'.repo
              i == IndexOf(before, repo.repo_full_name)
          IN  /\ OneRecordPerName(registry')
              /\ i # 0 =>
                    /\ Len(after) = Len(before)
                    /\ \A j \in DOMAIN before : j # i => after[j] = before[j]
                    /\ after[i].repo_full_name = repo.repo_full_name
                    /\ after[i].branch = repo.branch
                    /\ after[i].git_provider = repo.git_provider
                    /\ after[i].pool_size = repo.pool_size
                    /\ after[i].prewarmed_conversations =
                          before[i].prewarmed_conversations
                    /\ after[i].added_at = before[i].added_at
                    /\ after[i].last_commit_sha = before[i].last_commit_sha
              /\ i = 0 =>
                    /\ Len(after) = Len(before) + 1
                    /\ \A j \in DOMAIN before : after[j] = before[j]
                    /\ after[Len(after)].repo_full_name = repo.repo_full_name
              /\ add_repo(registry', repo) = registry']_vars

\* add_repo has been called for a stored repo that has a ready entry and a
\* last commit, with another branch and pool size than the stored ones.
C23_Witness ==
    /\ scall.method = "add_repo"
    /\ scall.repo.repo_full_name = TrackedRepo
    /\ Tracked.branch = "release"
    /\ Tracked.pool_size = 1
    /\ Tracked.last_commit_sha = "abc123"
    /\ Len(Tracked.prewarmed_conversations) = 1
    /\ Len(load_all(registry)) >= 2

\* The record a repo object becomes once stored and loaded again.
Stored(repo) == _dict_to_repo(_repo_to_dict(repo))

\* C24: update_repo and remove_repo of a name that is not stored return
\* False and leave the document as it is; of a stored name they return
\* True, update_repo puts the argument in the place of that record and
\* remove_repo takes that record out, every other record staying in place.
C24_UpdateRemoveByKey ==
    [][LET before == load_all(registry)
           after == load_all(registry')
           i == IndexOf(before, scall'.repo.repo_full_name)
       IN  /\ Calls("update_repo") =>
                 IF i = 0
                 THEN scall'.ret = "False" /\ registry' = registry
                 ELSE /\ scall'.ret = "True"
                      /\ Len(after) = Len(before)
                      /\ after[i] = Stored(scall'.repo)
                      /\ \A j \in DOMAIN before : j # i => after[j] = before[j]
           /\ Calls("remove_repo") =>
                 IF i = 0
                 THEN scall'.ret = "False" /\ registry' = registry
                 ELSE /\ scall'.ret = "True"
                      /\ Len(after) = Len(before) - 1
                      /\ \A j \in DOMAIN after :
                            after[j] = before[IF j < i THEN j ELSE j + 1]]_vars

\* remove_repo has taken the first of several records out, after an
\* earlier call.
C24_Witness ==
    /\ scall.method = "remove_repo"
    /\ scall.ret = "True"
    /\ scall.n >= 2
    /\ Len(load_all(registry)) >= 1
    /\ scall.repo.repo_full_name = TrackedRepo
    /\ load_all(registry)[1].repo_full_name = OtherRepo

\* A stored entry with a repo_full_name, a known or missing provider and
\* an added_at that is an ISO text or missing.
WellFormedEntry(d) ==
    /\ d.repo_full_name # Absent
    /\ d.git_provider \in ProviderTypes \cup {Absent}
    /\ d.added_at # BadTime

\* C25: load_all returns the empty list for a missing file and for a file
\* that is no JSON object; for a document it returns one record for every
\* well-formed entry, in the stored order, and nothing for the others.
C25_LoadAllIsTotal ==
    [][Calls("load_all") =>
          LET items == registry.repositories
              good == Ascending({i \in DOMAIN items : WellFormedEntry(items[i])})
              list == scall'.list
          IN  /\ registry.kind # "json" => list = <<>>
              /\ Len(list) = Len(good)
              /\ \A k \in DOMAIN list :
                    /\ list[k].repo_full_name = items[good[k]].repo_full_name
                    /\ list[k].pool_size = items[good[k]].pool_size
                    /\ list[k].last_commit_sha = items[good[k]].last_commit_sha
                    /\ Len(list[k].prewarmed_conversations) =
                          Len(items[good[k]].prewarmed_conversations)
              /\ registry' = registry]_vars

\* load_all has returned two records from a document of three entries whose
\* second entry does not parse.
C25_Witness ==
    /\ scall.method = "load_all"
    /\ registry.kind = "json"
    /\ Len(registry.repositories) = 3
    /\ Malformed(registry.repositories[2])
    /\ Len(scall.list) = 2
    /\ scall.list[2].repo_full_name = registry.repositories[3].repo_full_name

\* The entries after entry i that have a command.
LaterCommands(a) ==
    {j \in DOMAIN commands_of(a.config) :
        j > a.i /\ commands_of(a.config)[j].command}

\* The actions handed to the runtime follow the order of the manifest: of
\* two actions the later one is for a later entry, or it is the command of
\* the entry whose check came right before it.
InManifestOrder(log) ==
    \A p, q \in DOMAIN log :
        p < q =>
            \/ log[p].entry < log[q].entry
            \/ /\ log[p].entry = log[q].entry
               /\ q = p + 1
               /\ log[p].kind = "check"
               /\ log[q].kind = "run"

\* C26: the commands are handed to the runtime in the order of the
\* manifest, each at most once, and when a foreground command has exited
\* with a non-zero code the executor goes on with the next entry that has
\* a command, returning only when there is none.
C26_DispatchInOrderDespiteFailures ==
    [][/\ InManifestOrder(auto'.log)
       /\ (auto.pc = "run" /\ auto' # auto /\ auto'.exit = "exit_nonzero") =>
                 IF LaterCommands(auto) = {}
                 THEN auto'.pc = "done" /\ auto'.result = "returned"
                 ELSE /\ auto'.pc \in {"check", "run"}
                      /\ auto'.i = CHOOSE j \in LaterCommands(auto) :
                                      \A h \in LaterCommands(auto) : j <= h
                      /\ Len(auto'.log) = Len(auto.log) + 1
                      /\ auto'.log[Len(auto'.log)].entry = auto'.i]_vars

\* The third entry is running after the first, a foreground command, and
\* then the second have run and the second exited with a non-zero code.
C26_Witness ==
    /\ auto.pc = "run"
    /\ auto.i = 3
    /\ auto.exit = "exit_nonzero"
    /\ ~commands_of(auto.config)[2].background
    /\ \E p \in DOMAIN auto.log : auto.log[p] = RunAction(1, FALSE)
    /\ \E p \in DOMAIN auto.log : auto.log[p] = RunAction(2, FALSE)

\* The step hands the command of an entry with a condition to the runtime.
RunsConditioned ==
    /\ Len(auto'.log) = Len(auto.log) + 1
    /\ auto'.log[Len(auto'.log)].kind = "run"
    /\ commands_of(auto'.config)[auto'.i].condition

\* C27: the command of an entry with a condition is handed to the runtime
\* only after the check of that entry, and only when the check reported
\* the condition as met.
C27_RunsOnlyWhenConditionMet ==
    [][RunsConditioned =>
          /\ auto.pc = "check"
          /\ auto.log[Len(auto.log)] = CheckAction(auto'.i)
          /\ auto'.checked = "met"]_vars

\* C28: execute_autostart_commands never ends by raising; it returns with
\* nothing handed to the runtime when the manifest cannot be read or
\* parsed or when autostart is disabled; it hands no entry without a
\* command to the runtime; and it returns when runtime.read or runtime.run
\* raises.
C28_AutostartReturnsNormally ==
    /\ auto.result # "raised"
    /\ auto.pc = "done" => auto.result = "returned"
    /\ auto.read \in ReadFailures => auto.pc = "done" /\ auto.log = <<>>
    /\ (auto.config.format = "autostart" /\ ~auto.config.enabled) =>
          auto.pc = "done" /\ auto.log = <<>>
    /\ \A p \in DOMAIN auto.log :
          commands_of(auto.config)[auto.log[p].entry].command
    /\ (auto.checked = "raises" \/ auto.exit = "raises") => auto.pc = "done"

\* runtime.run has raised for the second command handed to it and the call
\* has returned.
C28_Witness ==
    /\ auto.exit = "raises"
    /\ auto.result = "returned"
    /\ Len(auto.log) >= 2
    /\ \E p \in DOMAIN commands_of(auto.config) :
          ~commands_of(auto.config)[p].command /\ p < auto.i

\* Nothing of the pool or of the route is left to run: no task holds or
\* awaits the lock, no call is in progress, no warmer is alive.
AtRest == Quiesced /\ idea.pc = "idle"

\* C29: an idea that build_idea stored as queued is, once the pool of its
\* repo holds a ready conversation, eventually stored as running with the
\* id of a conversation. Stated for a pool at rest, where the event loop
\* has nothing left to run.
C29_QueuedIdeaEventuallyRuns ==
    (/\ idea.building_status = "queued"
     /\ get_ready_conversations(Tracked) # <<>>
     /\ AtRest)
        ~> (/\ idea.building_status = "running"
            /\ idea.building_conversation_id \in ConvIds)

\* The step stores status ready for entry c, which did not have it.
BecomesReady(c) ==
    /\ EntryOf(registry', c) # <<>>
    /\ StatusOf(registry', TrackedRepo, c) = "ready"
    /\ EntryOf(registry, c) = <<>> \/ StatusOf(registry, TrackedRepo, c) # "ready"

\* C30 as stated: when the entry of a warming whose factory call returned
\* is set to ready, the last readiness poll of its warmer observed the
\* session with an agent session, an initialized runtime and an agent state
\* other than LOADING.
C30_ReadyOnlyAfterReadyPoll ==
    [][\A c \in ConvIds :
          (wpoll[c] # None /\ BecomesReady(c)) => wpoll[c] = "ready"]_vars

\* C30, amended: the same, unless the readiness wait raised an error of the
\* settings category and the warmer fell back to metadata-only warming.
C30_ReadyOnlyAfterReadyPollOrFallback ==
    [][\A c \in ConvIds :
          (wpoll[c] # None /\ BecomesReady(c)) =>
              wpoll[c] = "ready" \/ wpath[c] = "fallback"]_vars

\* A warmer on the full path holds the lock for its ready update after a
\* poll that observed readiness, the polls before it having written steps.
C30_Witness ==
    \E c \in ConvIds :
        /\ wpath[c] = "full"
        /\ wpc[c] = "upd_w"
        /\ wreq[c].status = "ready"
        /\ wpoll[c] = "ready"
        /\ wlast[c] = "starting_agent"

\* The gate that each warming_step of a full warming follows.
NextGate(step) ==
    CASE step = "cloning_repo" -> "building_runtime"
      [] step = "building_runtime" -> "starting_agent"
      [] step = "starting_agent" -> "ready"
      [] OTHER -> None

\* C31: in a full warming every warming_step the warmer writes after
\* cloning_repo is the step of the next gate: building_runtime after
\* cloning_repo, starting_agent after building_runtime, and ready only after
\* starting_agent.
C31_StepsAdvanceGateByGate ==
    [][\A c \in ConvIds :
          (/\ wpath[c] = "full"
           /\ wpath'[c] = "full"
           /\ wpc[c] \in {"factory", "sleep"}
           /\ wreq[c] = NoReq
           /\ wreq'[c] # NoReq
           /\ wreq'[c].status # "error") =>
              wreq'[c].step = NextGate(LastStep(c))]_vars

\* Every persisted entry of the tracked repo is ready and no warmer is
\* left running.
AllWarmersReady ==
    /\ LiveWarmers = {}
    /\ Pool(registry, TrackedRepo) # <<>>
    /\ \A i \in DOMAIN Pool(registry, TrackedRepo) :
          Pool(registry, TrackedRepo)[i].status = "ready"

\* C32: the id of a warmer that has finished, by its last status update, by
\* an exception or by cancellation, is not in the task index; once every
\* warmer has set its entry ready the index is empty.
C32_FinishedWarmerDeregistered ==
    /\ \A c \in ConvIds : c \in tasks => c \in LiveWarmers
    /\ AllWarmersReady => tasks = {}

\* Two warmers have ended, one by cancellation and one after its last
\* update, while a third is still running.
C32_Witness ==
    /\ \E c \in ConvIds : wpc[c] = "cancelled" /\ c \in cancelReq
    /\ \E c \in ConvIds : wpc[c] = "done"
    /\ tasks # {}

\* The awaits of a warmer outside _update_conversation_status: the unlocked
\* get_repo, the metadata creation, the factory call, the poll's sleep.
AwaitsOutsideUpdate(c) == wpc[c] \in {"get_repo", "init_conv", "factory", "sleep"}

InLockQueue(task) == \E i \in DOMAIN lockq : lockq[i] = task

\* C33: a warmer that awaits the metadata creation, the factory call or the
\* sleep of the readiness poll neither holds the lock nor waits for it; a
\* warmer is in the lock's queue only during one status update.
C33_LockOnlyInsideUpdate ==
    \A c \in ConvIds :
        /\ AwaitsOutsideUpdate(c) => ~InLockQueue(WarmTask(c))
        /\ InLockQueue(WarmTask(c)) => wpc[c] \in {"upd", "upd_w"}

\* While one warmer sleeps between two readiness polls, a
\* claim_conversation holds the lock for the write of its claim.
C33_Witness ==
    \E c \in ConvIds, k \in ClientIds :
        /\ wpc[c] = "sleep"
        /\ op[k].pc = "claim_write"
        /\ IsHolder(OpTask(k))

\* The step is the write of warmer c's status update.
WarmerWrites(c) ==
    /\ wpc[c] = "upd_w"
    /\ IsHolder(WarmTask(c))
    /\ registry' # registry

\* Records `old` and `new` of one repo differ at most in the named fields
\* of the pool entry of id c.
SameButEntry(old, new, c, fields) ==
    /\ [old EXCEPT !.prewarmed_conversations = <<>>] =
       [new EXCEPT !.prewarmed_conversations = <<>>]
    /\ Len(new.prewarmed_conversations) = Len(old.prewarmed_conversations)
    /\ \A i \in DOMAIN old.prewarmed_conversations :
          LET e == old.prewarmed_conversations[i]
              f == new.prewarmed_conversations[i]
          IN  /\ f.conversation_id = e.conversation_id
              /\ e.conversation_id # c => f = e
              /\ \A x \in DOMAIN e : x \notin fields => f[x] = e[x]

\* The write of warmer c changes at most the named fields of the entry of
\* id c in the record of the tracked repo, and no other record.
WriteTouchesOnly(c, fields) ==
    LET old == load_all(registry)
        new == load_all(registry')
    IN  /\ Len(new) = Len(old)
        /\ \A i \in DOMAIN old :
              IF old[i].repo_full_name = TrackedRepo
              THEN SameButEntry(old[i], new[i], c, fields)
              ELSE new[i] = old[i]

\* One warmer per conversation id, indexed in the step that creates it.
OneIndexedWarmerPerId ==
    \A c \in ConvIds :
        /\ spawned'[c] <= 1
        /\ spawned'[c] > spawned[c] => (c \notin tasks /\ c \in tasks')

\* C34 as stated: at most one warmer is spawned for a conversation id, it
\* is in the task index from the step that creates it, and the write of a
\* warmer changes nothing but the status and the step of the entry of its
\* own id.
C34_OneWarmerOwnsOneEntry ==
    [][/\ OneIndexedWarmerPerId
       /\ \A c \in ConvIds :
             WarmerWrites(c) =>
                 WriteTouchesOnly(c, {"status", "warming_step"})]_vars

\* C34, amended: the same, the error message of the entry being set
\* together with its status.
C34_OneWarmerOwnsOneEntryAndMessage ==
    [][/\ OneIndexedWarmerPerId
       /\ \A c \in ConvIds :
             WarmerWrites(c) =>
                 WriteTouchesOnly(c, {"status", "error_message",
                                      "warming_step"})]_vars

\* A warmer holds the lock for the write of its update while the pool has
\* a second entry, of another id and already ready.
C34_Witness ==
    \E c \in ConvIds :
        /\ wpc[c] = "upd_w"
        /\ IsHolder(WarmTask(c))
        /\ spawned[c] = 1
        /\ c \in tasks
        /\ \E i \in DOMAIN held.prewarmed_conversations :
              /\ held.prewarmed_conversations[i].conversation_id # c
              /\ held.prewarmed_conversations[i].status = "ready"

\* Two claim_conversation calls have returned different ids, or one of
\* them none.
NoIdReturnedTwice ==
    \A j, k \in ClientIds :
        (j # k /\ op[j].ret \in ConvIds /\ op[k].ret \in ConvIds) =>
            op[j].ret # op[k].ret

\* C35: no two successful claim_conversation calls return the same
\* conversation id, and an id that a claim returned is not in the pool
\* again, whatever writes the registry meanwhile.
C35_ClaimedOnce ==
    /\ NoIdReturnedTwice
    /\ claimed \cap PoolIds(registry, TrackedRepo) = {}

\* A whole run of _ensure_pool_filled, from taking the lock to releasing it,
\* that found the repo stored and nothing to add.
EnsureFoundPoolFilled(t) ==
    /\ op[t].pc = "ens_wait"
    /\ op'[t].pc = "done"
    /\ Tracked # NoRepo

\* C36: once pool_size was set through the update route or by saving the
\* repo again, a Pool Manager operation on the repo that runs after the
\* change leaves no more ready and warming entries than pool_size.
C36_ActiveWithinLoweredPoolSize ==
    [][\A t \in OpIds :
          EnsureFoundPoolFilled(t) =>
              ActiveCount(Tracked') <= Tracked'.pool_size]_vars

\* C37: every entry stored with status warming has a warmer that is still
\* running and is recorded under its id in the task index.
\* It is stated for the states in which nobody holds or awaits the lock:
\* invalidate_for_repo cancels the warmers before it writes the emptied
\* pool, both under the lock.
C37_WarmingHasLiveWarmer ==
    lockq = <<>> =>
        \A c \in PoolIds(registry, TrackedRepo) :
            StatusOf(registry, TrackedRepo, c) = "warming" =>
                c \in tasks /\ c \in LiveWarmers

\* The step ends a call of add_repo, of update_repo or of a warmer's status
\* update that had read the file.
CallSaves == InFlight /\ scall'.ret \notin {"loaded", "failed"}

RepoNames == {TrackedRepo, OtherRepo, UntrackedRepo}

\* C38: add_repo, update_repo and a warmer's status update change no record
\* but the one of the repo they name: every other record that is stored
\* when the call writes is stored after the write and is as it was, also
\* when the read of the call failed or another write came between its read
\* and its write.
C38_OtherRecordsUntouched ==
    [][CallSaves =>
          \A name \in RepoNames \ {scall.repo.repo_full_name} :
              get_repo(registry', name) = get_repo(registry, name)]_vars

====
